---- MODULE Spec2Model ----
(***************************************************************************)
(* A model of the i2p-rs SAM v3 client library.                            *)
(*                                                                         *)
(*   SpecVerify   the reply classifier (sam.rs verify_response) applied    *)
(*                to bounded lists of parsed KEY=VALUE pairs.              *)
(*   SpecStream   the byte framing of one STREAM ACCEPT exchange           *)
(*                (SamConnection::send, StreamForward::accept and the      *)
(*                reads of the returned stream) against a bridge whose     *)
(*                bytes arrive in arbitrary groupings.                     *)
(*   SpecConn     the sockets opened and written by the operations that    *)
(*                work on an existing Session, run by concurrent threads.  *)
(*   SpecWatcher  SamSessionWatcher::accept and its recycle path.          *)
(*   SpecWire     the requests written on one control connection, and the  *)
(*                replies read from it, by Session::create,                *)
(*                StreamConnect::with_session and StreamForward::accept.   *)
(*   SpecHandles  the Session, StreamConnect and StreamForward values that *)
(*                hold a descriptor of a session's control socket, from    *)
(*                their construction to their drop.                        *)
(*   SpecOptions  a SAMOptions value rendered by SAMOptions::options and   *)
(*                placed in the SESSION CREATE request.                    *)
(*   SpecParse    the reply parsers (parsers.rs) applied to the lines a    *)
(*                bridge sends, well-formed and not.                       *)
(*   SpecB64      I2pAddr::from_b64 applied to destination texts, valid    *)
(*                and damaged.                                             *)
(*   SpecResolve  ToI2pSocketAddrs::to_socket_addrs applied to texts, to   *)
(*                typed pairs and to what Display writes.                  *)
(*   SpecIncoming the loop over I2pListener::incoming, call by call.       *)
(*   SpecShared   a Session and its duplicate, each sending lookups on     *)
(*                the control socket the two share.                        *)
(*   SpecTruncated one SamConnection::send, and the caller that takes the  *)
(*                fields of its reply, against a bridge that closes the    *)
(*                connection after any char of a reply line.               *)
(***************************************************************************)
EXTENDS Integers, Sequences, FiniteSets, TLC

(***************************************************************************)
(* Bounds of the model.                                                    *)
(***************************************************************************)
\* longest list of KEY=VALUE pairs in a parsed reply
MaxPairs == 3
\* most payload bytes the peer sends on an accepted stream
MaxPayload == 2
\* threads of the application that use one session at the same time
NumThreads == 2
\* calls the threads make on the session, in all
MaxCalls == 3
\* sessions a SamSessionWatcher creates, the first one included
MaxSessions == 3

VARIABLES
    \* ---- reply classifier ----
    vr_pc,      \* "off" | "parsed" | "done"
    vr_in,      \* the pair list the reply parser returned
    vr_out,     \* what verify_response / send returned for it
    \* ---- one STREAM ACCEPT exchange, byte by byte ----
    st_pc,      \* where StreamForward::accept is: "off" | "start" | "send_read" | "dest_read" | "ok" | "err"
    st_script,  \* every byte the bridge sends on the connection after the request
    st_wire,    \* the bytes of st_script that have not reached this host yet
    st_kbuf,    \* the socket's receive buffer: arrived and not yet read
    st_closed,  \* the bridge has closed the connection
    st_line,    \* send's `buffer`
    st_dest,    \* accept's `dest_line`
    st_app,     \* the bytes the application has read from the returned stream
    st_err,     \* the error accept returned
    st_ret,     \* the (stream, addr) accept returned: stream.peer_dest and addr
    \* ---- the sockets of one session and of the operations on it ----
    cn_socks,   \* every TCP connection to the bridge opened so far: [log, fds]
    cn_sess,    \* Session::create: "connect" | "create" | "lookup" | "made" | "failed"
    cn_pc,      \* per thread: where its current call is ("panicked": the call aborted the thread)
    cn_call,    \* per thread: [id, sock] of its current call
    cn_calls,   \* calls started so far
    cn_streams, \* the connections held by live StreamConnect values
    cn_subs,    \* SessionManager::subsessions: how many were inserted
    cn_fields,  \* Session::nickname and Session::local_dest of the session made
    \* ---- SamSessionWatcher ----
    w_pc,       \* where accept is: "off" | "idle" | "accepting" | "shutdown" | "recreate" | "bind" | "panicked"
    w_socks,    \* the control socket of every session created so far: "open" | "shutdown" | "closed"
    w_session,  \* self.session: the number of the session held
    w_listener, \* self.listener: the number of the session it was bound with
    w_pending,  \* the session __recreate has created and not yet returned
    w_last,     \* what the last accept call returned
    w_failed,   \* history: the listeners whose accept has returned an error
    w_saved,    \* self.sam_endpoint, self.destination, self.session_style, self.opts
    w_args,     \* the arguments of the latest call to Session::create
    w_heard,    \* what self.listener.forward.accept() returned with Ok in this call
    w_value,    \* what this call to accept returned with Ok
    \* ---- the requests and replies of one control connection ----
    wr_pc,      \* "off" | "dial" | "write" | "read" | "done"
    wr_step,    \* the request being sent: "none" | "hello" | "create" | "lookup" | "connect" | "accept"
    wr_args,    \* the operation that opens the connection, and its arguments
    wr_trace,   \* history: the requests written to and the replies read from the connection
    wr_greeted, \* SamConnection::connect has returned Ok
    wr_dest,    \* with_session's `dest` once the naming lookup resolved it
    wr_ret,     \* what the operation returned
    wr_conn,    \* the connection the operation dialed: "none" | "open" | "closed"
    \* ---- the values that hold a session's control socket ----
    h_socks,    \* every TCP connection opened so far: [kind, fds, shut, sent]
    h_sessions, \* the Session values the application holds: [id, sock, nickname, local_dest]
    h_streams,  \* the live StreamConnect values: [id, from, data, sess]
    h_forwards, \* the live StreamForward values: [id, from, sess]
    h_ids,      \* values handed out so far
    \* ---- SAMOptions rendered into a SESSION CREATE request ----
    op_pc,    \* "off" | "built" | "rendered" | "placed"
    op_opts,  \* the SAMOptions value given to Session::create
    op_text,  \* what options.options() returned
    op_msg,   \* create_session_msg
    \* ---- one reply line given to a reply parser ----
    pr_pc,     \* "off" | "composed" | "read" | "parsed"
    pr_shape,  \* how the bridge composed the line: [parser, tag, pairs, sep, trail]
    pr_line,   \* the line read from the socket
    pr_ret,    \* what the reply parser returned for pr_line
    \* ---- one address conversion: I2pAddr::from_b64 or to_socket_addrs ----
    ad_pc,    \* "off" | "given" | "text" | "done"
    ad_in,    \* what the conversion starts from
    ad_text,  \* the text given to from_b64 or to the str resolver
    ad_ret,   \* what the conversion returned
    \* ---- a loop over I2pListener::incoming ----
    in_pc,     \* where the call to next is: "off" | "idle" | "connect" | "send" | "duplicate" | "dest" | "unwound"
    in_calls,  \* calls to next made so far
    in_items,  \* what the calls to next returned, in order
    \* ---- two handles on one control socket ----
    sh_dup,       \* Session::duplicate: "off", "none", "made", "failed"
    sh_pc,        \* each holder position inside send: "idle", "written"
    sh_ask,       \* the name each holder is looking up
    sh_calls,     \* the calls started so far
    sh_requests,  \* the request lines the bridge has not answered yet
    sh_replies,   \* the reply lines waiting in the socket
    sh_got,       \* the replies each holder has read
    \* ---- one send whose reply the bridge cuts short ----
    tr_pc,      \* where send is: "off", "read", "returned"
    tr_parser,  \* the reply parser send was given
    tr_wire,    \* what the bridge sent before closing and has not arrived yet
    tr_kbuf,    \* what has arrived and was not read
    tr_closed,  \* the bridge has closed the connection
    tr_line,    \* the buffer read_line appends to
    tr_ret,     \* what send returned
    tr_out      \* what the caller of send returned

verifyVars == <<vr_pc, vr_in, vr_out>>

streamVars == <<st_pc, st_script, st_wire, st_kbuf, st_closed, st_line, st_dest, st_app, st_err, st_ret>>

connVars == <<cn_socks, cn_sess, cn_pc, cn_call, cn_calls, cn_streams, cn_subs, cn_fields>>

watchVars == <<w_pc, w_socks, w_session, w_listener, w_pending, w_last, w_failed, w_saved, w_args, w_heard, w_value>>

wireVars == <<wr_pc, wr_step, wr_args, wr_trace, wr_greeted, wr_dest, wr_ret, wr_conn>>

handleVars == <<h_socks, h_sessions, h_streams, h_forwards, h_ids>>

optVars == <<op_pc, op_opts, op_text, op_msg>>

parseVars == <<pr_pc, pr_shape, pr_line, pr_ret>>

addrVars == <<ad_pc, ad_in, ad_text, ad_ret>>

incVars == <<in_pc, in_calls, in_items>>

shareVars == <<sh_dup, sh_pc, sh_ask, sh_calls, sh_requests, sh_replies, sh_got>>

truncVars == <<tr_pc, tr_parser, tr_wire, tr_kbuf, tr_closed, tr_line, tr_ret, tr_out>>

vars == <<verifyVars, streamVars, connVars, watchVars, wireVars, handleVars, optVars, parseVars, addrVars, incVars, shareVars, truncVars>>

(***************************************************************************)
(* Reply classifier: sam.rs verify_response, and the tail of send.         *)
(***************************************************************************)

\* the RESULT values of the SAM wire protocol
OkCode == "OK"

NonOkCodes ==
    { "CANT_REACH_PEER", "KEY_NOT_FOUND", "PEER_NOT_FOUND", "DUPLICATED_DEST",
      "DUPLICATED_ID", "INVALID_KEY", "INVALID_ID", "TIMEOUT", "I2P_ERROR",
      "NOVERSION", "ALREADY_ACCEPTING" }

\* a RESULT value that is none of the documented codes
UnknownCode == "BOGUS"

ResultValues == {OkCode} \cup NonOkCodes \cup {UnknownCode}

OtherValues == {"m1", "m2"}

\* the pairs a parsed reply is drawn from
ReplyPairs ==
    ({"RESULT"} \X ResultValues) \cup ({"MESSAGE", "VALUE"} \X OtherValues)

RECURSIVE SeqsUpTo(_, _)
SeqsUpTo(S, n) ==
    IF n = 0 THEN { <<>> }
    ELSE LET shorter == SeqsUpTo(S, n - 1)
         IN  shorter \cup { Append(s, x) : s \in { t \in shorter : Len(t) = n - 1 }, x \in S }

EmptyMap == [k \in {} |-> ""]

\* HashMap::insert: a later insert of the same key replaces the value
MapInsertKeepFirst(map, kv) ==
    IF kv[1] \in DOMAIN map THEN map
    ELSE [k \in DOMAIN map \cup {kv[1]} |-> IF k = kv[1] THEN kv[2] ELSE map[k]]

MapInsert(map, kv) ==
    [k \in DOMAIN map \cup {kv[1]} |-> IF k = kv[1] THEN kv[2] ELSE map[k]]

\* vec.iter().copied().collect(): the pairs inserted in list order
RECURSIVE CollectFrom(_, _, _)
CollectFrom(vec, i, map) ==
    IF i > Len(vec) THEN map
    ELSE CollectFrom(vec, i + 1, MapInsert(map, vec[i]))

Collect(vec) == CollectFrom(vec, 1, EmptyMap)

\* map.get("RESULT").unwrap_or(&"OK")
ResultOfNoDefault(map) ==
    IF "RESULT" \in DOMAIN map THEN map["RESULT"] ELSE ""

ResultOf(map) ==
    IF "RESULT" \in DOMAIN map THEN map["RESULT"] ELSE "OK"

\* map.get("MESSAGE").unwrap_or(&"")
MessageOf(map) ==
    IF "MESSAGE" \in DOMAIN map THEN map["MESSAGE"] ELSE ""

\* the match arms of verify_response for a RESULT other than OK
ErrorKindOf(res) ==
    CASE res = "CANT_REACH_PEER" -> "SAMCantReachPeer"
      [] res = "KEY_NOT_FOUND"   -> "SAMKeyNotFound"
      [] res = "PEER_NOT_FOUND"  -> "SAMPeerNotFound"
      [] res = "DUPLICATED_DEST" -> "SAMDuplicatedDest"
      [] res = "INVALID_KEY"     -> "SAMInvalidKey"
      [] res = "INVALID_ID"      -> "SAMInvalidId"
      [] res = "TIMEOUT"         -> "SAMTimeout"
      [] res = "I2P_ERROR"       -> "SAMI2PError"
      [] OTHER                   -> "SAMInvalidMessage"

OkResult(map) == [ok |-> TRUE, map |-> map, kind |-> "none", msg |-> ""]

ErrResult(kind, msg) == [ok |-> FALSE, map |-> EmptyMap, kind |-> kind, msg |-> msg]

NoResult == [ok |-> FALSE, map |-> EmptyMap, kind |-> "pending", msg |-> ""]

\* the caller of send has not returned
NoReturn == [how |-> "none", fields |-> <<>>, kind |-> "none"]

verify_response(vec) ==
    LET map == Collect(vec)
        res == ResultOf(map)
        msg == MessageOf(map)
    IN  IF res = "OK" THEN OkResult(map) ELSE ErrResult(ErrorKindOf(res), msg)

\* the tail of SamConnection::send: classify the parsed pairs and copy the
\* borrowed map into owned strings
SendClassify(vec) == verify_response(vec)

VerifyIdle == vr_pc = "off" /\ vr_in = <<>> /\ vr_out = NoResult

Threads == 1..NumThreads

NoCall == [id |-> 0, sock |-> 0]

NoFields == [nickname |-> "", local_dest |-> ""]

ConnIdle ==
    /\ cn_socks = <<>>
    /\ cn_sess = "off"
    /\ cn_pc = [t \in Threads |-> "off"]
    /\ cn_call = [t \in Threads |-> NoCall]
    /\ cn_calls = 0
    /\ cn_streams = {}
    /\ cn_subs = 0
    /\ cn_fields = NoFields

\* no (StreamConnect, I2pSocketAddr) pair
NoAccepted == [stream |-> 0, addr |-> ""]

WatchIdle ==
    /\ w_pc = "off"
    /\ w_socks = <<>>
    /\ w_session = 0
    /\ w_listener = 0
    /\ w_pending = 0
    /\ w_last = "none"
    /\ w_failed = {}
    /\ w_saved = <<>>
    /\ w_args = <<>>
    /\ w_heard = NoAccepted
    /\ w_value = NoAccepted

\* no (stream, addr) pair
NoStream ==
    [peer_dest |-> <<>>,
     addr |-> [port |-> 0, dest |-> [inner |-> [b32_sha256_of |-> <<>>, ext |-> ""]]]]

StreamIdle ==
    /\ st_pc = "off"
    /\ st_script = <<>>
    /\ st_wire = <<>>
    /\ st_kbuf = <<>>
    /\ st_closed = FALSE
    /\ st_line = <<>>
    /\ st_dest = <<>>
    /\ st_app = <<>>
    /\ st_err = "none"
    /\ st_ret = NoStream

NoRet == [how |-> "pending", kind |-> "none"]

NoArgs == [op |-> "none"]

WireIdle ==
    /\ wr_pc = "off"
    /\ wr_step = "none"
    /\ wr_args = NoArgs
    /\ wr_trace = <<>>
    /\ wr_greeted = FALSE
    /\ wr_dest = ""
    /\ wr_ret = NoRet
    /\ wr_conn = "none"

HandleIdle ==
    /\ h_socks = <<>>
    /\ h_sessions = {}
    /\ h_streams = {}
    /\ h_forwards = {}
    /\ h_ids = 0

\* no SAMOptions value has been built
NoOptions == <<>>

OptIdle ==
    /\ op_pc = "off"
    /\ op_opts = NoOptions
    /\ op_text = ""
    /\ op_msg = ""

\* no line has been composed
NoShape == <<>>

\* no parser has run
NoParse == [ok |-> FALSE, how |-> "none", kind |-> "none"]

ParseIdle ==
    /\ pr_pc = "off"
    /\ pr_shape = NoShape
    /\ pr_line = ""
    /\ pr_ret = NoParse

\* no conversion has been asked for
NoInput == <<>>

NoAddrRet == [ok |-> FALSE, kind |-> "none"]

AddrIdle ==
    /\ ad_pc = "off"
    /\ ad_in = NoInput
    /\ ad_text = ""
    /\ ad_ret = NoAddrRet

IncomingIdle ==
    /\ in_pc = "off"
    /\ in_calls = 0
    /\ in_items = <<>>

SharedIdle ==
    /\ sh_dup = "off"
    /\ sh_pc = <<>>
    /\ sh_ask = <<>>
    /\ sh_calls = 0
    /\ sh_requests = <<>>
    /\ sh_replies = <<>>
    /\ sh_got = <<>>

TruncIdle ==
    /\ tr_pc = "off"
    /\ tr_parser = ""
    /\ tr_wire = ""
    /\ tr_kbuf = ""
    /\ tr_closed = FALSE
    /\ tr_line = ""
    /\ tr_ret = NoResult
    /\ tr_out = NoReturn

VerifyInit ==
    /\ StreamIdle
    /\ ConnIdle
    /\ WatchIdle
    /\ WireIdle
    /\ HandleIdle
    /\ OptIdle
    /\ ParseIdle
    /\ AddrIdle
    /\ IncomingIdle
    /\ SharedIdle
    /\ TruncIdle
    /\ vr_pc = "parsed"
    /\ vr_in \in SeqsUpTo(ReplyPairs, MaxPairs)
    /\ vr_out = NoResult

Classify ==
    /\ vr_pc = "parsed"
    /\ vr_out' = SendClassify(vr_in)
    /\ vr_pc' = "done"
    /\ UNCHANGED vr_in
    /\ UNCHANGED <<streamVars, connVars, watchVars, wireVars, handleVars, optVars, parseVars, addrVars, incVars, shareVars, truncVars>>

NextVerify == Classify

SpecVerify == VerifyInit /\ [][NextVerify]_vars

(***************************************************************************)
(* Claims about the reply classifier.                                      *)
(***************************************************************************)

\* the positions of key k in a pair list, and the values it carries there
Occurrences(vec, k) == { i \in 1..Len(vec) : vec[i][1] = k }

ValuesAt(vec, k) == { vec[i][2] : i \in Occurrences(vec, k) }

KeysIn(vec) == { vec[i][1] : i \in 1..Len(vec) }

FirstValue(vec, k) ==
    LET i == CHOOSE j \in Occurrences(vec, k) : \A l \in Occurrences(vec, k) : j <= l
    IN  vec[i][2]

LastValue(vec, k) ==
    LET i == CHOOSE j \in Occurrences(vec, k) : \A l \in Occurrences(vec, k) : j >= l
    IN  vec[i][2]

\* C8: send returns Ok with the reply's map exactly when the reply carries no
\* RESULT or RESULT=OK, and otherwise an error whose message is the reply's
\* MESSAGE value, or the empty string when the reply has no MESSAGE.  (A key
\* written twice with two values is C10's case; here every occurrence of RESULT,
\* and of MESSAGE, is taken into account.)
C8_OkIffNoResultOrResultOk ==
    vr_pc = "done" =>
        LET rs == ValuesAt(vr_in, "RESULT")
            ms == ValuesAt(vr_in, "MESSAGE")
        IN  /\ rs \subseteq {"OK"} =>
                /\ vr_out.ok
                /\ DOMAIN vr_out.map = KeysIn(vr_in)
                /\ \A k \in KeysIn(vr_in) : vr_out.map[k] \in ValuesAt(vr_in, k)
            /\ (rs # {} /\ "OK" \notin rs) =>
                /\ ~vr_out.ok
                /\ ms = {} => vr_out.msg = ""
                /\ ms # {} => vr_out.msg \in ms

\* a non-OK reply that carries a MESSAGE was classified into an error with that message
C8_Witness ==
    /\ vr_pc = "done"
    /\ vr_in = << <<"RESULT", "TIMEOUT">>, <<"MESSAGE", "m1">> >>
    /\ ~vr_out.ok
    /\ vr_out.msg = "m1"

\* C9: the eleven non-OK RESULT codes are classified into eleven distinct error
\* kinds: the kind returned for a reply carrying one code is returned for no
\* other code.
C9_OneKindPerCode ==
    (vr_pc = "done" /\ Len(vr_in) = 1 /\ vr_in[1][1] = "RESULT" /\ vr_in[1][2] \in NonOkCodes) =>
        \A c \in NonOkCodes \ {vr_in[1][2]} :
            SendClassify(<< <<"RESULT", c>> >>).kind # vr_out.kind

\* what send returns when the lookup of a repeated key yields Pick(vec, key)
ClassifiedWith(vec, out, Pick(_, _)) ==
    LET res == IF Occurrences(vec, "RESULT") = {} THEN "OK" ELSE Pick(vec, "RESULT")
        msg == IF Occurrences(vec, "MESSAGE") = {} THEN "" ELSE Pick(vec, "MESSAGE")
    IN  IF res = "OK"
        THEN /\ out.ok
             /\ DOMAIN out.map = KeysIn(vec)
             /\ \A k \in KeysIn(vec) : out.map[k] = Pick(vec, k)
        ELSE /\ ~out.ok
             /\ out.kind = ErrorKindOf(res)
             /\ out.msg = msg

\* C10 as claimed: for a key that occurs more than once in the reply, the
\* classifier and send's map use the value of its first occurrence.
C10_FirstOccurrenceWins ==
    vr_pc = "done" => ClassifiedWith(vr_in, vr_out, FirstValue)

\* C10 as amended: for a key that occurs more than once in the reply, the
\* classifier and send's map use the value of its last occurrence.
C10_LastOccurrenceWins ==
    vr_pc = "done" => ClassifiedWith(vr_in, vr_out, LastValue)

\* a reply with two different RESULT values and one with two MESSAGE values
C10_Witness ==
    /\ vr_pc = "done"
    /\ vr_in = << <<"RESULT", "TIMEOUT">>, <<"MESSAGE", "m1">>, <<"MESSAGE", "m2">> >>
    /\ vr_out.msg = "m2"

(***************************************************************************)
(* Byte framing of one STREAM ACCEPT exchange: sam.rs SamConnection::send, *)
(* StreamForward::accept and Read for StreamConnect.                       *)
(*                                                                         *)
(* A byte of the model stands for a run of bytes of one kind:              *)
(*   "K"  the text `STREAM STATUS RESULT=OK`                               *)
(*   "E"  the text `STREAM STATUS RESULT=I2P_ERROR`                        *)
(*   "D"  base-64 destination characters                                   *)
(*   " "  a space,  "F"  the text `FROM_PORT=1`,  "\n"  a newline          *)
(*   "\t" a tab                                                            *)
(*   "p"  payload bytes (base-64 characters too)                           *)
(***************************************************************************)

\* std::io::BufReader::new: the capacity of the reader's internal buffer
DEFAULT_BUF_SIZE == 8192

Min(a, b) == IF a < b THEN a ELSE b

Take(s, n) == SubSeq(s, 1, Min(n, Len(s)))

Drop(s, n) == SubSeq(s, Min(n, Len(s)) + 1, Len(s))

NewlineAt(s) == { i \in 1..Len(s) : s[i] = "\n" }

HasNewline(s) == NewlineAt(s) # {}

FirstNewline(s) == CHOOSE i \in NewlineAt(s) : \A j \in NewlineAt(s) : i <= j

\* one TcpStream::read into the reader's empty internal buffer: what has
\* arrived, up to the buffer's capacity (nothing at end of stream)
FillBuf(kbuf) == Take(kbuf, DEFAULT_BUF_SIZE)

\* BufRead::read_line, one turn of its loop on the chunk fill_buf returned:
\* the bytes appended to the line (through the first newline, else all)
LineBytes(chunk) ==
    IF HasNewline(chunk) THEN Take(chunk, FirstNewline(chunk)) ELSE chunk

\* read_line has the whole line: a newline was found, or the stream ended
LineComplete(chunk) == HasNewline(chunk) \/ chunk = <<>>

\* parsers.rs sam_stream_status on the line read, as the pair list or a failure
StatusLinePairs(line) ==
    CASE line = <<"K", "\n">> -> [parsed |-> TRUE, pairs |-> << <<"RESULT", "OK">> >>]
      [] line = <<"E", "\n">> -> [parsed |-> TRUE, pairs |-> << <<"RESULT", "I2P_ERROR">> >>]
      [] OTHER                -> [parsed |-> FALSE, pairs |-> <<>>]

\* the rest of send once the line is read: parse, then classify
SendReply(line) ==
    LET r == StatusLinePairs(line)
    IN  IF r.parsed THEN SendClassify(r.pairs) ELSE ErrResult("MessageParsing", "")

\* dest_line.split(' ').next().unwrap_or("").trim()
RECURSIVE TrimEnd(_)
TrimEnd(s) ==
    IF s # <<>> /\ s[Len(s)] \in {"\n", " ", "\t"} THEN TrimEnd(SubSeq(s, 1, Len(s) - 1)) ELSE s

FirstToken(line) ==
    LET spaces == { i \in 1..Len(line) : line[i] = " " }
        cut == IF spaces = {} THEN Len(line)
               ELSE (CHOOSE i \in spaces : \A j \in spaces : i <= j) - 1
    IN  TrimEnd(SubSeq(line, 1, cut))

\* I2pAddr::from_b64 succeeds on text of the base-64 alphabet
B64Bytes == {"D", "p"}

IsB64(token) == \A i \in 1..Len(token) : token[i] \in B64Bytes

B32_EXT == ".b32.i2p"

\* I2pAddr::from_b64 on such text: the base-32 text of the SHA-256 of the
\* decoded bytes, with B32_EXT pushed after it
from_b64(dest) == [inner |-> [b32_sha256_of |-> dest, ext |-> B32_EXT]]

\* I2pSocketAddr::new
I2pSocketAddr(dest, port) == [port |-> port, dest |-> dest]

\* what the bridge may send after the STREAM ACCEPT request
StatusLines == { <<"K", "\n">>, <<"E", "\n">> }

DestLines ==
    { <<"D", "\n">>, <<"D", " ", "F", "\n">>, <<"\n">>,
      <<" ", "D", "\n">>, <<"D", "\t", "F", "\n">> }

Payloads == SeqsUpTo({"p", "\n"}, MaxPayload)

Scripts ==
    { <<>>, <<"K">>, <<"E", "\n">>, <<"K", "\n">> }
        \cup { <<"K", "\n">> \o d \o p : d \in DestLines, p \in Payloads }

StreamInit ==
    /\ VerifyIdle
    /\ ConnIdle
    /\ WatchIdle
    /\ WireIdle
    /\ HandleIdle
    /\ OptIdle
    /\ ParseIdle
    /\ AddrIdle
    /\ IncomingIdle
    /\ SharedIdle
    /\ TruncIdle
    /\ st_pc = "start"
    /\ st_script \in Scripts
    /\ st_wire = st_script
    /\ st_kbuf = <<>>
    /\ st_closed = FALSE
    /\ st_line = <<>>
    /\ st_dest = <<>>
    /\ st_app = <<>>
    /\ st_err = "none"
    /\ st_ret = NoStream

\* send: write_all of the STREAM ACCEPT request; the bridge answers afterwards
StSendWrite ==
    /\ st_pc = "start"
    /\ st_pc' = "send_read"
    /\ UNCHANGED <<st_script, st_wire, st_kbuf, st_closed, st_line, st_dest, st_app, st_err, st_ret>>
    /\ UNCHANGED <<verifyVars, connVars, watchVars, wireVars, handleVars, optVars, parseVars, addrVars, incVars, shareVars, truncVars>>

\* the network delivers the next bytes of the bridge, in any grouping
StArrive ==
    /\ st_pc \notin {"off", "start"}
    /\ \E n \in 1..Len(st_wire) :
        /\ st_kbuf' = st_kbuf \o Take(st_wire, n)
        /\ st_wire' = Drop(st_wire, n)
    /\ UNCHANGED <<st_pc, st_script, st_closed, st_line, st_dest, st_app, st_err, st_ret>>
    /\ UNCHANGED <<verifyVars, connVars, watchVars, wireVars, handleVars, optVars, parseVars, addrVars, incVars, shareVars, truncVars>>

\* the bridge closes the connection after its last byte
StBridgeClose ==
    /\ st_pc \notin {"off", "start"}
    /\ st_wire = <<>>
    /\ ~st_closed
    /\ st_closed' = TRUE
    /\ UNCHANGED <<st_pc, st_script, st_wire, st_kbuf, st_line, st_dest, st_app, st_err, st_ret>>
    /\ UNCHANGED <<verifyVars, connVars, watchVars, wireVars, handleVars, optVars, parseVars, addrVars, incVars, shareVars, truncVars>>

\* send: one turn of reader.read_line(&mut buffer) on BufReader::new(&self.conn),
\* and, once the line is complete, the parse and the classification
StSendReadLine ==
    /\ st_pc = "send_read"
    /\ st_kbuf # <<>> \/ st_closed
    /\ LET chunk == FillBuf(st_kbuf)
           line == st_line \o LineBytes(chunk)
       IN  /\ st_kbuf' = Drop(st_kbuf, Len(chunk))
           /\ st_line' = line
           /\ IF ~LineComplete(chunk)
              THEN UNCHANGED <<st_pc, st_err>>
              ELSE LET r == SendReply(line)
                   IN  /\ st_pc' = IF r.ok THEN "dest_read" ELSE "err"
                       /\ st_err' = IF r.ok THEN "none" ELSE r.kind
    /\ UNCHANGED <<st_script, st_wire, st_closed, st_dest, st_app, st_ret>>
    /\ UNCHANGED <<verifyVars, connVars, watchVars, wireVars, handleVars, optVars, parseVars, addrVars, incVars, shareVars, truncVars>>

\* accept: one turn of buf_read.read_line(&mut dest_line) on a BufReader over
\* stream.duplicate(), and, once the line is complete, the rest of accept
StDestReadLine ==
    /\ st_pc = "dest_read"
    /\ st_kbuf # <<>> \/ st_closed
    /\ LET chunk == FillBuf(st_kbuf)
           line == st_dest \o LineBytes(chunk)
           destination == FirstToken(line)
       IN  /\ st_kbuf' = Drop(st_kbuf, Len(chunk))
           /\ st_dest' = line
           /\ IF ~LineComplete(chunk)
              THEN UNCHANGED <<st_pc, st_err, st_ret>>
              ELSE IF destination = <<>>
              THEN st_pc' = "err" /\ st_err' = "SAMKeyNotFound" /\ UNCHANGED st_ret
              ELSE IF ~IsB64(destination)
              THEN st_pc' = "err" /\ st_err' = "BadAddressEncoding" /\ UNCHANGED st_ret
              ELSE /\ st_pc' = "ok"
                   /\ st_ret' = [peer_dest |-> destination,
                                 addr |-> I2pSocketAddr(from_b64(destination), 0)]
                   /\ UNCHANGED st_err
    /\ UNCHANGED <<st_script, st_wire, st_closed, st_line, st_app>>
    /\ UNCHANGED <<verifyVars, connVars, watchVars, wireVars, handleVars, optVars, parseVars, addrVars, incVars, shareVars, truncVars>>

\* Read for StreamConnect: self.sam.conn.read(buf) on the returned stream
StStreamRead ==
    /\ st_pc = "ok"
    /\ \E n \in 1..Len(st_kbuf) :
        /\ st_app' = st_app \o Take(st_kbuf, n)
        /\ st_kbuf' = Drop(st_kbuf, n)
    /\ UNCHANGED <<st_pc, st_script, st_wire, st_closed, st_line, st_dest, st_err, st_ret>>
    /\ UNCHANGED <<verifyVars, connVars, watchVars, wireVars, handleVars, optVars, parseVars, addrVars, incVars, shareVars, truncVars>>

NextStream ==
    \/ StSendWrite
    \/ StArrive
    \/ StBridgeClose
    \/ StSendReadLine
    \/ StDestReadLine
    \/ StStreamRead

SpecStream == StreamInit /\ [][NextStream]_vars

(***************************************************************************)
(* Claims about the byte framing.                                          *)
(***************************************************************************)

AfterFirstLine(s) == IF HasNewline(s) THEN Drop(s, FirstNewline(s)) ELSE <<>>

\* C6: when send has returned, every byte the bridge sent after the first
\* newline of the reply is still there, in order, for the next read on the
\* socket, however the bridge's bytes were grouped on arrival.
C6_SendConsumesOneLine ==
    (st_pc = "dest_read" /\ st_dest = <<>>) =>
        st_kbuf \o st_wire = AfterFirstLine(st_script)

\* C7: once accept has returned Ok, the reads on the returned stream yield
\* exactly the bytes the bridge sent after the peer-destination line, in order
\* and with none missing.
C7_StreamYieldsPayload ==
    st_pc = "ok" =>
        st_app \o st_kbuf \o st_wire = AfterFirstLine(AfterFirstLine(st_script))

\* the line the bridge sends after the STREAM STATUS line
SecondLine(script) ==
    LET rest == AfterFirstLine(script)
    IN  IF HasNewline(rest) THEN Take(rest, FirstNewline(rest)) ELSE rest

Whitespace == {" ", "\t", "\n"}

\* the first whitespace-delimited token of a line
FirstWsToken(line) ==
    LET inTok == { i \in 1..Len(line) : line[i] \notin Whitespace }
        start == CHOOSE i \in inTok : \A j \in inTok : i <= j
        after == { i \in start..Len(line) : line[i] \in Whitespace }
        stop  == IF after = {} THEN Len(line) + 1
                 ELSE CHOOSE i \in after : \A j \in after : i <= j
    IN  IF inTok = {} THEN <<>> ELSE SubSeq(line, start, stop - 1)

\* C19: when accept succeeds, the returned stream's peer_dest is the first
\* whitespace-delimited token of the line the bridge sent after the STREAM
\* STATUS reply, and the returned address holds the .b32.i2p form derived
\* from that token, with port 0, whatever tail the line carries.
C19_PeerIsFirstTokenOfNextLine ==
    st_pc = "ok" =>
        LET token == FirstWsToken(SecondLine(st_script))
        IN  /\ st_ret.peer_dest = token
            /\ st_ret.addr.port = 0
            /\ st_ret.addr.dest.inner = [b32_sha256_of |-> token, ext |-> ".b32.i2p"]

\* the line after the reply is empty, starts with a space, or never came
NoDestinationFollows(script) ==
    LET line == SecondLine(script)
    IN  line = <<>> \/ line = <<"\n">> \/ line[1] = " "

\* C20: when the reply to STREAM ACCEPT was OK and the line that follows it is
\* empty, starts with a space, or is cut off by the bridge closing the
\* connection, accept returns SAMKeyNotFound and no stream.
C20_NoDestinationIsKeyNotFound ==
    (st_pc \in {"ok", "err"} /\ Take(st_script, 2) = <<"K", "\n">>
        /\ NoDestinationFollows(st_script)) =>
        /\ st_pc = "err"
        /\ st_err = "SAMKeyNotFound"
        /\ st_ret = NoStream

(***************************************************************************)
(* The sockets of a session: sam.rs Session::create, Session::naming_lookup,*)
(* StreamConnect::with_session, StreamForward::accept, the data carried by *)
(* a StreamConnect, and session_manager.rs SessionManager::add_subsession. *)
(*                                                                         *)
(* cn_socks[k].log lists what was written to (and, for the destination     *)
(* line, read from) connection k as [call, op, req]; call 0 is the         *)
(* Session::create that made the session.  cn_socks[k].fds counts the      *)
(* descriptors that refer to the connection: it is open while fds > 0.     *)
(***************************************************************************)

\* the session's control connection is the first one opened
SessionSock == 1

Entry(call, op, req) == [call |-> call, op |-> op, req |-> req]

\* TcpStream::connect inside SamConnection::connect: a connection of its own
ReuseSessionSockForConnect(socks) == SessionSock

WithSessionSock(socks) == Len(socks) + 1

ReuseSessionSockForAccept(socks) == SessionSock

AcceptSock(socks) == Len(socks) + 1

\* connection k after the HELLO of SamConnection::connect was written on it
Greet(socks, k, e) ==
    IF k > Len(socks)
    THEN Append(socks, [log |-> <<e>>, fds |-> 1])
    ELSE [socks EXCEPT ![k].log = Append(@, e), ![k].fds = @ + 1]

\* SamConnection::send on connection k: the request written
Sent(socks, k, e) == [socks EXCEPT ![k].log = Append(@, e)]

\* one descriptor of connection k dropped
Closed(socks, k) == [socks EXCEPT ![k].fds = @ - 1]

\* try_clone of connection k
Duplicated(socks, k) == [socks EXCEPT ![k].fds = @ + 1]

ConnInit ==
    /\ VerifyIdle
    /\ StreamIdle
    /\ WatchIdle
    /\ WireIdle
    /\ HandleIdle
    /\ OptIdle
    /\ ParseIdle
    /\ AddrIdle
    /\ IncomingIdle
    /\ SharedIdle
    /\ TruncIdle
    /\ cn_socks = <<>>
    /\ cn_sess = "connect"
    /\ cn_pc = [t \in Threads |-> "idle"]
    /\ cn_call = [t \in Threads |-> NoCall]
    /\ cn_calls = 0
    /\ cn_streams = {}
    /\ cn_subs = 0
    /\ cn_fields = NoFields

\* the nickname Session::create was given, and what the bridge can answer to
\* NAMING LOOKUP NAME=ME
CreateNickname == "i2prs-a"

LocalDests == {"destA", "destB"}

\* Session::create: SamConnection::connect (dial, HELLO)
CrConnect ==
    /\ cn_sess = "connect"
    /\ \E outcome \in {"dial_fail", "hello_fail", "ok"} :
        CASE outcome = "dial_fail" ->
                /\ cn_sess' = "failed"
                /\ UNCHANGED cn_socks
          [] outcome = "hello_fail" ->
                /\ cn_sess' = "failed"
                /\ cn_socks' = Closed(Greet(cn_socks, Len(cn_socks) + 1, Entry(0, "create", "HELLO")),
                                      Len(cn_socks) + 1)
          [] outcome = "ok" ->
                /\ cn_sess' = "create"
                /\ cn_socks' = Greet(cn_socks, Len(cn_socks) + 1, Entry(0, "create", "HELLO"))
    /\ UNCHANGED <<cn_pc, cn_call, cn_calls, cn_streams, cn_subs>>
    /\ UNCHANGED cn_fields
    /\ UNCHANGED <<verifyVars, streamVars, watchVars, wireVars, handleVars, optVars, parseVars, addrVars, incVars, shareVars, truncVars>>

\* Session::create: sam.send(create_session_msg, sam_session_status)?
CrSessionCreate ==
    /\ cn_sess = "create"
    /\ \E ok \in BOOLEAN :
        IF ok
        THEN /\ cn_sess' = "lookup"
             /\ cn_socks' = Sent(cn_socks, SessionSock, Entry(0, "create", "SESSION CREATE"))
        ELSE /\ cn_sess' = "failed"
             /\ cn_socks' = Closed(Sent(cn_socks, SessionSock, Entry(0, "create", "SESSION CREATE")),
                                   SessionSock)
    /\ UNCHANGED <<cn_pc, cn_call, cn_calls, cn_streams, cn_subs>>
    /\ UNCHANGED cn_fields
    /\ UNCHANGED <<verifyVars, streamVars, watchVars, wireVars, handleVars, optVars, parseVars, addrVars, incVars, shareVars, truncVars>>

\* Session::create: sam.naming_lookup("ME")?, then Ok(Session { .. })
CrNamingLookup ==
    /\ cn_sess = "lookup"
    /\ \E ok \in BOOLEAN :
        IF ok
        THEN /\ cn_sess' = "made"
             /\ cn_socks' = Sent(cn_socks, SessionSock, Entry(0, "create", "NAMING LOOKUP"))
             /\ \E dest \in LocalDests :
                  cn_fields' = [nickname |-> CreateNickname, local_dest |-> dest]
        ELSE /\ cn_sess' = "failed"
             /\ cn_socks' = Closed(Sent(cn_socks, SessionSock, Entry(0, "create", "NAMING LOOKUP")),
                                   SessionSock)
             /\ UNCHANGED cn_fields
    /\ UNCHANGED <<cn_pc, cn_call, cn_calls, cn_streams, cn_subs>>
    /\ UNCHANGED <<verifyVars, streamVars, watchVars, wireVars, handleVars, optVars, parseVars, addrVars, incVars, shareVars, truncVars>>

\* a thread may start a call on the session
CanCall(t) ==
    /\ cn_sess = "made"
    /\ cn_pc[t] = "idle"
    /\ cn_calls < MaxCalls

\* &mut Session: no other thread is inside a call that borrows the same value
Exclusive(t) == \A u \in Threads \ {t} : cn_pc[u] \notin {"ws_lookup", "ws_connect"}

Return(t, how) ==
    /\ cn_pc' = [cn_pc EXCEPT ![t] = IF how = "panic" THEN "panicked" ELSE "idle"]
    /\ cn_call' = [cn_call EXCEPT ![t] = NoCall]

\* the first statement of with_session and of accept:
\* SamConnection::connect(session.sam_api()?).unwrap()
Connect(t, op, k, next) ==
    /\ CanCall(t)
    /\ cn_calls' = cn_calls + 1
    /\ \E outcome \in {"api_err", "dial_fail", "hello_fail", "ok"} :
        CASE outcome = "api_err" ->
                /\ Return(t, "err")
                /\ UNCHANGED cn_socks
          [] outcome = "dial_fail" ->
                /\ Return(t, "panic")
                /\ UNCHANGED cn_socks
          [] outcome = "hello_fail" ->
                /\ Return(t, "panic")
                /\ cn_socks' = Closed(Greet(cn_socks, k, Entry(cn_calls + 1, op, "HELLO")), k)
          [] outcome = "ok" ->
                /\ cn_pc' = [cn_pc EXCEPT ![t] = next]
                /\ cn_call' = [cn_call EXCEPT ![t] = [id |-> cn_calls + 1, sock |-> k]]
                /\ cn_socks' = Greet(cn_socks, k, Entry(cn_calls + 1, op, "HELLO"))
    /\ UNCHANGED <<cn_sess, cn_streams, cn_subs>>
    /\ UNCHANGED cn_fields
    /\ UNCHANGED <<verifyVars, streamVars, watchVars, wireVars, handleVars, optVars, parseVars, addrVars, incVars, shareVars, truncVars>>

\* StreamConnect::with_session, line 1
WsConnect(t) == Connect(t, "with_session", WithSessionSock(cn_socks), "ws_lookup")

\* a with_session whose failed lookup keeps its connection
WsLookupLeaks(t) ==
    /\ cn_pc[t] = "ws_lookup"
    /\ LET c == cn_call[t]
           socks == Sent(cn_socks, c.sock, Entry(c.id, "with_session", "NAMING LOOKUP"))
       IN  \E ok \in BOOLEAN :
            IF ok
            THEN /\ cn_pc' = [cn_pc EXCEPT ![t] = "ws_connect"]
                 /\ cn_socks' = socks
                 /\ UNCHANGED cn_call
            ELSE /\ Return(t, "err")
                 /\ cn_socks' = socks
    /\ UNCHANGED <<cn_sess, cn_calls, cn_streams, cn_subs>>
    /\ UNCHANGED cn_fields
    /\ UNCHANGED <<verifyVars, streamVars, watchVars, wireVars, handleVars, optVars, parseVars, addrVars, incVars, shareVars, truncVars>>

\* StreamConnect::with_session: let dest = sam.naming_lookup(dest)?
WsLookup(t) ==
    /\ cn_pc[t] = "ws_lookup"
    /\ LET c == cn_call[t]
           socks == Sent(cn_socks, c.sock, Entry(c.id, "with_session", "NAMING LOOKUP"))
       IN  \E ok \in BOOLEAN :
            IF ok
            THEN /\ cn_pc' = [cn_pc EXCEPT ![t] = "ws_connect"]
                 /\ cn_socks' = socks
                 /\ UNCHANGED cn_call
            ELSE /\ Return(t, "err")
                 /\ cn_socks' = Closed(socks, c.sock)
    /\ UNCHANGED <<cn_sess, cn_calls, cn_streams, cn_subs>>
    /\ UNCHANGED cn_fields
    /\ UNCHANGED <<verifyVars, streamVars, watchVars, wireVars, handleVars, optVars, parseVars, addrVars, incVars, shareVars, truncVars>>

\* StreamConnect::with_session: sam.send(stream_msg, sam_stream_status)?, then
\* Ok(StreamConnect { sam, session: session.duplicate()?, .. })
WsStreamConnect(t) ==
    /\ cn_pc[t] = "ws_connect"
    /\ LET c == cn_call[t]
           socks == Sent(cn_socks, c.sock, Entry(c.id, "with_session", "STREAM CONNECT"))
       IN  \E outcome \in {"reply_err", "dup_err", "ok"} :
            IF outcome = "ok"
            THEN /\ Return(t, "ok")
                 /\ cn_socks' = Duplicated(socks, SessionSock)
                 /\ cn_streams' = cn_streams \cup {c}
            ELSE /\ Return(t, "err")
                 /\ cn_socks' = Closed(socks, c.sock)
                 /\ UNCHANGED cn_streams
    /\ UNCHANGED <<cn_sess, cn_calls, cn_subs>>
    /\ UNCHANGED cn_fields
    /\ UNCHANGED <<verifyVars, streamVars, watchVars, wireVars, handleVars, optVars, parseVars, addrVars, incVars, shareVars, truncVars>>

\* StreamForward::accept, line 1
AcConnect(t) == Connect(t, "accept", AcceptSock(cn_socks), "ac_accept")

\* StreamForward::accept: sam_conn.send(accept_stream_msg, sam_stream_status)?
AcStreamAccept(t) ==
    /\ cn_pc[t] = "ac_accept"
    /\ LET c == cn_call[t]
           socks == Sent(cn_socks, c.sock, Entry(c.id, "accept", "STREAM ACCEPT"))
       IN  \E ok \in BOOLEAN :
            IF ok
            THEN /\ cn_pc' = [cn_pc EXCEPT ![t] = "ac_dest"]
                 /\ cn_socks' = socks
                 /\ UNCHANGED cn_call
            ELSE /\ Return(t, "err")
                 /\ cn_socks' = Closed(socks, c.sock)
    /\ UNCHANGED <<cn_sess, cn_calls, cn_streams, cn_subs>>
    /\ UNCHANGED cn_fields
    /\ UNCHANGED <<verifyVars, streamVars, watchVars, wireVars, handleVars, optVars, parseVars, addrVars, incVars, shareVars, truncVars>>

\* an accept whose error returns after the destination line keep the connection
AcReadDestLeaks(t) ==
    /\ cn_pc[t] = "ac_dest"
    /\ LET c == cn_call[t]
       IN  \E outcome \in {"dup_err", "read_err", "no_dest", "bad_b64", "ok"} :
            CASE outcome = "dup_err" ->
                    /\ Return(t, "err")
                    /\ cn_socks' = Closed(cn_socks, c.sock)
                    /\ UNCHANGED cn_streams
              [] outcome = "ok" ->
                    /\ Return(t, "ok")
                    /\ cn_socks' = Duplicated(Sent(cn_socks, c.sock, Entry(c.id, "accept", "read line")),
                                              SessionSock)
                    /\ cn_streams' = cn_streams \cup {c}
              [] OTHER ->
                    /\ Return(t, "err")
                    /\ cn_socks' = Sent(cn_socks, c.sock, Entry(c.id, "accept", "read line"))
                    /\ UNCHANGED cn_streams
    /\ UNCHANGED <<cn_sess, cn_calls, cn_subs>>
    /\ UNCHANGED cn_fields
    /\ UNCHANGED <<verifyVars, streamVars, watchVars, wireVars, handleVars, optVars, parseVars, addrVars, incVars, shareVars, truncVars>>

\* StreamForward::accept: self.session.duplicate()?, the destination line read
\* through stream.duplicate()?, the empty-token test and I2pAddr::from_b64
AcReadDest(t) ==
    /\ cn_pc[t] = "ac_dest"
    /\ LET c == cn_call[t]
       IN  \E outcome \in {"dup_err", "read_err", "no_dest", "bad_b64", "ok"} :
            CASE outcome = "dup_err" ->
                    /\ Return(t, "err")
                    /\ cn_socks' = Closed(cn_socks, c.sock)
                    /\ UNCHANGED cn_streams
              [] outcome = "ok" ->
                    /\ Return(t, "ok")
                    /\ cn_socks' = Duplicated(Sent(cn_socks, c.sock, Entry(c.id, "accept", "read line")),
                                              SessionSock)
                    /\ cn_streams' = cn_streams \cup {c}
              [] OTHER ->
                    /\ Return(t, "err")
                    /\ cn_socks' = Closed(Sent(cn_socks, c.sock, Entry(c.id, "accept", "read line")),
                                          c.sock)
                    /\ UNCHANGED cn_streams
    /\ UNCHANGED <<cn_sess, cn_calls, cn_subs>>
    /\ UNCHANGED cn_fields
    /\ UNCHANGED <<verifyVars, streamVars, watchVars, wireVars, handleVars, optVars, parseVars, addrVars, incVars, shareVars, truncVars>>

\* Write for StreamConnect / Read for StreamConnect: self.sam.conn
StreamData ==
    /\ \E c \in cn_streams :
        /\ cn_socks[c.sock].log[Len(cn_socks[c.sock].log)].req # "DATA"
        /\ cn_socks' = Sent(cn_socks, c.sock, Entry(c.id, "stream", "DATA"))
    /\ UNCHANGED <<cn_sess, cn_pc, cn_call, cn_calls, cn_streams, cn_subs>>
    /\ UNCHANGED cn_fields
    /\ UNCHANGED <<verifyVars, streamVars, watchVars, wireVars, handleVars, optVars, parseVars, addrVars, incVars, shareVars, truncVars>>

\* a StreamConnect dropped: its connection and its session duplicate go
StreamDrop ==
    /\ \E c \in cn_streams :
        /\ cn_streams' = cn_streams \ {c}
        /\ cn_socks' = Closed(Closed(cn_socks, c.sock), SessionSock)
    /\ UNCHANGED <<cn_sess, cn_pc, cn_call, cn_calls, cn_subs>>
    /\ UNCHANGED cn_fields
    /\ UNCHANGED <<verifyVars, streamVars, watchVars, wireVars, handleVars, optVars, parseVars, addrVars, incVars, shareVars, truncVars>>

\* Session::naming_lookup: self.sam.naming_lookup(name)
SessionNamingLookup(t) ==
    /\ CanCall(t)
    /\ Exclusive(t)
    /\ cn_calls' = cn_calls + 1
    /\ cn_socks' = Sent(cn_socks, SessionSock, Entry(cn_calls + 1, "naming_lookup", "NAMING LOOKUP"))
    /\ \E ok \in BOOLEAN : Return(t, IF ok THEN "ok" ELSE "err")
    /\ UNCHANGED <<cn_sess, cn_streams, cn_subs>>
    /\ UNCHANGED cn_fields
    /\ UNCHANGED <<verifyVars, streamVars, watchVars, wireVars, handleVars, optVars, parseVars, addrVars, incVars, shareVars, truncVars>>

\* SessionManager::add_subsession: self.primary_session.sam.send(..)?, then the
\* insert with u16::from_str(listen_port).unwrap()
AddSubsession(t) ==
    /\ CanCall(t)
    /\ Exclusive(t)
    /\ cn_calls' = cn_calls + 1
    /\ cn_socks' = Sent(cn_socks, SessionSock, Entry(cn_calls + 1, "add_subsession", "SESSION ADD"))
    /\ \E outcome \in {"reply_err", "bad_port", "ok"} :
        CASE outcome = "reply_err" -> Return(t, "err") /\ UNCHANGED cn_subs
          [] outcome = "bad_port"  -> Return(t, "panic") /\ UNCHANGED cn_subs
          [] outcome = "ok"        -> Return(t, "ok") /\ cn_subs' = cn_subs + 1
    /\ UNCHANGED <<cn_sess, cn_streams>>
    /\ UNCHANGED cn_fields
    /\ UNCHANGED <<verifyVars, streamVars, watchVars, wireVars, handleVars, optVars, parseVars, addrVars, incVars, shareVars, truncVars>>

NextConn ==
    \/ CrConnect
    \/ CrSessionCreate
    \/ CrNamingLookup
    \/ \E t \in Threads : WsConnect(t)
    \/ \E t \in Threads : WsLookup(t)
    \/ \E t \in Threads : WsStreamConnect(t)
    \/ \E t \in Threads : AcConnect(t)
    \/ \E t \in Threads : AcStreamAccept(t)
    \/ \E t \in Threads : AcReadDest(t)
    \/ StreamData
    \/ StreamDrop
    \/ \E t \in Threads : SessionNamingLookup(t)
    \/ \E t \in Threads : AddSubsession(t)

SpecConn == ConnInit /\ [][NextConn]_vars

(***************************************************************************)
(* Claims about the sockets of a session.                                  *)
(***************************************************************************)

SessionLog == IF cn_socks = <<>> THEN <<>> ELSE cn_socks[SessionSock].log

\* the three requests of Session::create, in order
CreateLog ==
    << Entry(0, "create", "HELLO"),
       Entry(0, "create", "SESSION CREATE"),
       Entry(0, "create", "NAMING LOOKUP") >>

C5_OneConnectionPerCall ==
    \A k \in 1..Len(cn_socks) :
        LET log == cn_socks[k].log
        IN  \A i \in 1..Len(log) :
                log[i].op \in {"with_session", "accept", "stream"} =>
                    /\ k # SessionSock
                    /\ \A j \in 1..Len(log) : log[j].call = log[i].call

\* two threads are inside accept at once, each past its STREAM ACCEPT, and a
\* stream returned by with_session has carried data
C5_Witness ==
    /\ \E t, u \in Threads :
        /\ t # u
        /\ cn_pc[t] = "ac_dest"
        /\ cn_pc[u] = "ac_dest"
        /\ cn_call[t].sock # cn_call[u].sock
    /\ \E c \in cn_streams : cn_socks[c.sock].log[1].op = "with_session"

\* thread t returns from with_session in this step without a StreamConnect
WithSessionFails(t) ==
    /\ cn_pc[t] \in {"ws_lookup", "ws_connect"}
    /\ cn_pc'[t] = "idle"
    /\ cn_streams' = cn_streams

\* C35: a with_session that fails at the naming lookup or at STREAM CONNECT
\* leaves the session it was given as it was: the control socket has the
\* descriptors it had and is open, nickname and local_dest are unchanged, and
\* the connection the call opened is closed.
C35_FailedWithSessionLeavesSession ==
    [][\A t \in Threads :
        WithSessionFails(t) =>
            /\ cn_socks'[SessionSock].fds = cn_socks[SessionSock].fds
            /\ cn_socks'[SessionSock].fds > 0
            /\ cn_fields' = cn_fields
            /\ cn_fields'.nickname = CreateNickname
            /\ cn_fields'.local_dest \in LocalDests
            /\ cn_sess' = "made"
            /\ cn_socks'[cn_call[t].sock].fds = 0]_vars

\* a with_session has failed at the lookup and another at STREAM CONNECT; the
\* session is as it was made
C35_Witness ==
    /\ \E k \in 1..Len(cn_socks) :
        /\ cn_socks[k].fds = 0
        /\ cn_socks[k].log[Len(cn_socks[k].log)].op = "with_session"
        /\ cn_socks[k].log[Len(cn_socks[k].log)].req = "NAMING LOOKUP"
    /\ \E k \in 1..Len(cn_socks) :
        /\ cn_socks[k].fds = 0
        /\ cn_socks[k].log[Len(cn_socks[k].log)].req = "STREAM CONNECT"
    /\ cn_socks[SessionSock].fds = 1
    /\ cn_fields = [nickname |-> "i2prs-a", local_dest |-> "destB"]
    /\ \A t \in Threads : cn_pc[t] = "idle"

\* the connections StreamForward::accept opened, the call having returned
AcceptReturned ==
    { k \in 1..Len(cn_socks) :
        /\ cn_socks[k].log[1].op = "accept"
        /\ \A t \in Threads : cn_call[t].sock # k }

\* C36: of the connections accept opened, the ones open after the call
\* returned are the data sockets of the streams it returned, one descriptor
\* each; the connection of an accept that returned an error is closed, however
\* many accepts failed.
C36_AcceptLeavesOnlyTheStreamOpen ==
    \A k \in AcceptReturned :
        IF \E c \in cn_streams : c.sock = k
        THEN cn_socks[k].fds = 1
        ELSE cn_socks[k].fds = 0

\* two accepts have failed after their connection was opened, one at STREAM
\* ACCEPT and one after the destination line, and a third returned a stream
C36_Witness ==
    /\ \E k \in AcceptReturned :
        /\ cn_socks[k].fds = 0
        /\ cn_socks[k].log[Len(cn_socks[k].log)].req = "STREAM ACCEPT"
    /\ \E k \in AcceptReturned :
        /\ cn_socks[k].fds = 0
        /\ cn_socks[k].log[Len(cn_socks[k].log)].req = "read line"
    /\ \E k \in AcceptReturned :
        /\ cn_socks[k].fds = 1
        /\ \E c \in cn_streams : c.sock = k

(***************************************************************************)
(* session_watcher.rs: SamSessionWatcher.                                  *)
(*                                                                         *)
(* Sessions are numbered in the order Session::create made them; each has  *)
(* a nickname of its own (nickname() draws it afresh), so the number       *)
(* stands for the nickname too.  A listener is named by the session it was *)
(* bound with.                                                             *)
(***************************************************************************)

\* the state after SamSessionWatcher::new returned Ok: one session, its
\* control socket open, and the listener bound with it
\* the bridge addresses a watcher can be constructed with
WatchEndpoints == {"127.0.0.1:7656", "10.0.0.2:7656"}

WatchDestinations == {"TRANSIENT", "privkeyA"}

WatchStyles == {"Stream", "Raw"}

\* SAMOptions values: SAMOptions::default() and one that sets FROM_PORT
WatchOptions == {"default", "from_port"}

\* what SamSessionWatcher::new is given
WatchParams ==
    [sam_endpoint : WatchEndpoints, destination : WatchDestinations,
     session_style : WatchStyles, opts : WatchOptions]

\* what nickname() can return
WatchNicknames == {"i2prs-a", "i2prs-b"}

\* a replacement session for the destination "TRANSIENT", whatever was saved
RecreateTransient(self, nick) ==
    [sam_endpoint |-> self.sam_endpoint, destination |-> "TRANSIENT", nickname |-> nick,
     session_style |-> self.session_style, opts |-> self.opts]

\* recreate: the arguments of __recreate, which passes them to Session::create:
\* &self.sam_endpoint, &self.destination, &nickname(),
\* self.session_style.clone(), self.opts.clone()
RecreateArgs(self, nick) ==
    [sam_endpoint |-> self.sam_endpoint, destination |-> self.destination, nickname |-> nick,
     session_style |-> self.session_style, opts |-> self.opts]

WatchInit ==
    /\ VerifyIdle
    /\ StreamIdle
    /\ ConnIdle
    /\ WireIdle
    /\ HandleIdle
    /\ OptIdle
    /\ ParseIdle
    /\ AddrIdle
    /\ IncomingIdle
    /\ SharedIdle
    /\ TruncIdle
    /\ w_pc = "idle"
    /\ w_socks = <<"open">>
    /\ w_session = 1
    /\ w_listener = 1
    /\ w_pending = 0
    /\ w_last = "none"
    /\ w_failed = {}
    /\ \E given \in WatchParams, nick \in WatchNicknames :
        /\ w_saved = given
        /\ w_args = [sam_endpoint |-> given.sam_endpoint, destination |-> given.destination,
                     nickname |-> nick, session_style |-> given.session_style,
                     opts |-> given.opts]
    /\ w_heard = NoAccepted
    /\ w_value = NoAccepted

\* what Session::create can return to __recreate besides Ok(session)
CreateErrors == {"Io", "MessageParsing", "SAMDuplicatedDest", "SAMDuplicatedId", "SAMI2PError"}

WatchReturn(result) ==
    /\ w_pc' = "idle"
    /\ w_last' = result

\* accept is called: match self.listener.forward.accept()
WAcceptCall ==
    /\ w_pc = "idle"
    /\ w_pc' = "accepting"
    /\ w_heard' = NoAccepted
    /\ w_value' = NoAccepted
    /\ UNCHANGED <<w_socks, w_session, w_listener, w_pending, w_last, w_failed, w_saved, w_args>>
    /\ UNCHANGED <<verifyVars, streamVars, connVars, wireVars, handleVars, optVars, parseVars, addrVars, incVars, shareVars, truncVars>>

\* the (StreamConnect, I2pSocketAddr) pairs the listener can return
AcceptedPairs ==
    { [stream |-> 1, addr |-> "peera.b32.i2p:0"], [stream |-> 2, addr |-> "peerb.b32.i2p:0"] }

\* an Ok arm that also shuts the session's control socket down
WListenerOkShutsDown ==
    /\ w_pc = "accepting"
    /\ WatchReturn("ok")
    /\ \E res \in AcceptedPairs : w_heard' = res /\ w_value' = res
    /\ w_socks' = [w_socks EXCEPT ![w_session] = "shutdown"]
    /\ UNCHANGED <<w_session, w_listener, w_pending, w_failed, w_saved, w_args>>
    /\ UNCHANGED <<verifyVars, streamVars, connVars, wireVars, handleVars, optVars, parseVars, addrVars, incVars, shareVars, truncVars>>

\* Ok(res) => Ok(res)
WListenerOk ==
    /\ w_pc = "accepting"
    /\ WatchReturn("ok")
    /\ \E res \in AcceptedPairs : w_heard' = res /\ w_value' = res
    /\ UNCHANGED <<w_socks, w_session, w_listener, w_pending, w_failed, w_saved, w_args>>
    /\ UNCHANGED <<verifyVars, streamVars, connVars, wireVars, handleVars, optVars, parseVars, addrVars, incVars, shareVars, truncVars>>

\* Err(err) => ..., for any error of StreamForward::accept
WListenerErr ==
    /\ w_pc = "accepting"
    /\ Len(w_socks) < MaxSessions
    /\ w_pc' = "shutdown"
    /\ w_failed' = w_failed \cup {w_listener}
    /\ UNCHANGED <<w_socks, w_session, w_listener, w_pending, w_last, w_saved, w_args, w_heard, w_value>>
    /\ UNCHANGED <<verifyVars, streamVars, connVars, wireVars, handleVars, optVars, parseVars, addrVars, incVars, shareVars, truncVars>>

\* StreamForward::accept aborts in SamConnection::connect(..).unwrap()
WListenerPanic ==
    /\ w_pc = "accepting"
    /\ w_pc' = "panicked"
    /\ UNCHANGED <<w_socks, w_session, w_listener, w_pending, w_last, w_failed, w_saved, w_args, w_heard, w_value>>
    /\ UNCHANGED <<verifyVars, streamVars, connVars, wireVars, handleVars, optVars, parseVars, addrVars, incVars, shareVars, truncVars>>

\* the error path without its shutdown: the session's socket is left as it is
WShutdownSkipped ==
    /\ w_pc = "shutdown"
    /\ w_pc' = "recreate"
    /\ UNCHANGED <<w_socks, w_session, w_listener, w_pending, w_last, w_failed, w_saved, w_args, w_heard, w_value>>
    /\ UNCHANGED <<verifyVars, streamVars, connVars, wireVars, handleVars, optVars, parseVars, addrVars, incVars, shareVars, truncVars>>

\* drop(&mut self.listener); self.session.sam.conn.shutdown(Shutdown::Both)?;
\* drop(&mut self.session): the two drops take references and drop nothing
WShutdown ==
    /\ w_pc = "shutdown"
    /\ \E ok \in BOOLEAN :
        IF ok
        THEN /\ w_socks' = [w_socks EXCEPT ![w_session] = "shutdown"]
             /\ w_pc' = "recreate"
             /\ UNCHANGED w_last
        ELSE /\ WatchReturn("Io")
             /\ UNCHANGED w_socks
    /\ UNCHANGED <<w_session, w_listener, w_pending, w_failed, w_saved, w_args, w_heard, w_value>>
    /\ UNCHANGED <<verifyVars, streamVars, connVars, wireVars, handleVars, optVars, parseVars, addrVars, incVars, shareVars, truncVars>>

\* recreate -> __recreate: Session::create(..)?
WRecreateSession ==
    /\ w_pc = "recreate"
    /\ \/ /\ w_socks' = Append(w_socks, "open")
          /\ w_pending' = Len(w_socks) + 1
          /\ w_pc' = "bind"
          /\ UNCHANGED w_last
       \/ /\ \E e \in CreateErrors : WatchReturn(e)
          /\ UNCHANGED <<w_socks, w_pending>>
    /\ \E nick \in WatchNicknames : w_args' = RecreateArgs(w_saved, nick)
    /\ UNCHANGED <<w_session, w_listener, w_failed, w_saved, w_heard, w_value>>
    /\ UNCHANGED <<verifyVars, streamVars, connVars, wireVars, handleVars, optVars, parseVars, addrVars, incVars, shareVars, truncVars>>

\* __recreate: I2pListener::bind_with_session(&session)?, then in recreate
\* self.session = session; self.listener = listener; and in accept
\* Err(ErrorKind::SessionRecreated.into())
WRecreateBind ==
    /\ w_pc = "bind"
    /\ \/ /\ w_session' = w_pending
          /\ w_listener' = w_pending
          /\ w_socks' = [w_socks EXCEPT ![w_session] = "closed"]
          /\ WatchReturn("SessionRecreated")
       \/ /\ w_socks' = [w_socks EXCEPT ![w_pending] = "closed"]
          /\ WatchReturn("Io")
          /\ UNCHANGED <<w_session, w_listener>>
    /\ w_pending' = 0
    /\ UNCHANGED <<w_failed, w_saved, w_args, w_heard, w_value>>
    /\ UNCHANGED <<verifyVars, streamVars, connVars, wireVars, handleVars, optVars, parseVars, addrVars, incVars, shareVars, truncVars>>

NextWatcher ==
    \/ WAcceptCall
    \/ WListenerOk
    \/ WListenerErr
    \/ WListenerPanic
    \/ WShutdown
    \/ WRecreateSession
    \/ WRecreateBind

SpecWatcher == WatchInit /\ [][NextWatcher]_vars

(***************************************************************************)
(* Claims about the session watcher.                                       *)
(***************************************************************************)

\* C1: after an accept call has returned an error, the next call runs on a
\* listener and session constructed after that error: a listener whose accept
\* has produced an error is never used by a later accept call.
C1_FailedListenerNeverReused ==
    w_pc = "accepting" => w_listener \notin w_failed

\* C2: an accept call whose listener accept failed returns SessionRecreated
\* and no other error kind, whatever the bridge does during the recycle.
C2_ErrorIsSessionRecreated ==
    (w_pc = "idle" /\ w_last \notin {"none", "ok"}) => w_last = "SessionRecreated"

\* C3: whenever no accept call is executing, the watcher's listener is bound
\* to the watcher's current session and that session's control socket is open
\* and has not been shut down.
C3_ListenerOnLiveSession ==
    w_pc = "idle" =>
        /\ w_listener = w_session
        /\ w_socks[w_session] = "open"

\* C30: on the error path of accept the old session's control socket is shut
\* down before the replacement session is asked for: while the replacement is
\* being created or bound the old socket is no longer open, and no socket but
\* the newest one the watcher has created is ever open.
C30_OldSocketShutBeforeCreate ==
    /\ w_pc \in {"recreate", "bind"} => w_socks[w_session] # "open"
    /\ \A k \in 1..(Len(w_socks) - 1) : w_socks[k] # "open"

\* the fields of the arguments of Session::create other than the nickname
SavedPart(args) ==
    [sam_endpoint |-> args.sam_endpoint, destination |-> args.destination,
     session_style |-> args.session_style, opts |-> args.opts]

\* C31: across any number of recycles, every Session::create the watcher
\* calls is given the bridge address, destination, style and options the
\* watcher was constructed with, and no step of accept or recreate changes
\* the saved parameters; the nickname is the one field chosen per call.
C31_RecreateUsesSavedParameters ==
    /\ [](SavedPart(w_args) = w_saved)
    /\ [][w_saved' = w_saved]_vars

\* a recycle has created a replacement session under the nickname i2prs-b
\* for a saved destination that is not the default
C31_Witness ==
    /\ Len(w_socks) >= 2
    /\ w_pc = "bind"
    /\ w_saved.destination = "privkeyA"
    /\ w_args.nickname = "i2prs-b"
    /\ SavedPart(w_args) = w_saved

\* C34: an accept whose listener returned Ok returns that same pair, and the
\* call changes neither the watcher's session nor its listener: no socket is
\* shut down or closed and no Session::create is called.
C34_OkAcceptChangesNothing ==
    /\ [](w_last = "ok" /\ w_pc = "idle" => (w_value = w_heard /\ w_value \in AcceptedPairs))
    /\ [][(w_pc = "accepting" /\ w_pc' = "idle" /\ w_last' = "ok") =>
            /\ w_session' = w_session
            /\ w_listener' = w_listener
            /\ w_socks' = w_socks
            /\ w_args' = w_args]_vars

\* an accept has returned Ok on the session and listener of a recycle
C34_Witness ==
    /\ w_pc = "idle"
    /\ w_last = "ok"
    /\ w_value = [stream |-> 2, addr |-> "peerb.b32.i2p:0"]
    /\ w_session = 2
    /\ w_listener = 2
    /\ w_socks[2] = "open"

\* the replacement session exists and the session it replaces is shut down
C30_Witness ==
    /\ w_pc = "bind"
    /\ w_pending = Len(w_socks)
    /\ w_socks[w_pending] = "open"
    /\ w_socks[w_session] = "shutdown"

(***************************************************************************)
(* Text.  A String of the program is a string here; a char is a string of  *)
(* length one.  The operators are those of Rust's str that the program     *)
(* uses: the byte order that Ord for str compares by, split, and the       *)
(* Vec operations sort_unstable and dedup.                                 *)
(***************************************************************************)

\* the ASCII characters of bytes 32 to 95
Printable == " !\"#$%&'()*+,-./0123456789:;<=>?@ABCDEFGHIJKLMNOPQRSTUVWXYZ[\\]^_"

\* the ASCII characters of bytes 97 to 126
PrintableLower == "abcdefghijklmnopqrstuvwxyz{|}~"

CharAt(s, i) == SubSeq(s, i, i)

IndexIn(s, c) == CHOOSE i \in 1..Len(s) : CharAt(s, i) = c

Chars ==
    { CharAt(Printable, i) : i \in 1..Len(Printable) }
        \cup { CharAt(PrintableLower, i) : i \in 1..Len(PrintableLower) }
        \cup {"\t", "\n", "\r"}

\* the byte of a char
Byte ==
    [c \in Chars |->
        CASE c = "\t" -> 9
          [] c = "\n" -> 10
          [] c = "\r" -> 13
          [] \E i \in 1..Len(Printable) : CharAt(Printable, i) = c
                      -> 31 + IndexIn(Printable, c)
          [] OTHER    -> 96 + IndexIn(PrintableLower, c)]

\* Ord for str: a < b, decided by the bytes at the first position where they
\* differ, a proper prefix first
StrLess(a, b) ==
    LET differ == { i \in 1..Min(Len(a), Len(b)) : CharAt(a, i) # CharAt(b, i) }
        first == CHOOSE i \in differ : \A j \in differ : i <= j
    IN  IF differ = {} THEN Len(a) < Len(b)
        ELSE Byte[CharAt(a, first)] < Byte[CharAt(b, first)]

\* the positions of char c in s
PositionsOf(s, c) == { i \in 1..Len(s) : CharAt(s, i) = c }

\* s.split(c).collect(): the pieces between the occurrences of c, one more
\* than there are occurrences
Split(s, c) ==
    LET at == PositionsOf(s, c)
        n == Cardinality(at)
        nth(k) == CHOOSE q \in at : Cardinality({ r \in at : r < q }) = k - 1
    IN  [k \in 1..(n + 1) |->
            SubSeq(s, IF k = 1 THEN 1 ELSE nth(k - 1) + 1,
                      IF k = n + 1 THEN Len(s) ELSE nth(k) - 1)]

\* every piece stays where it is
Unsorted(v) == v

\* Vec::sort_unstable on strings: ascending by Ord for str
RECURSIVE Insert(_, _)
Insert(sorted, x) ==
    IF sorted = <<>> THEN <<x>>
    ELSE IF StrLess(Head(sorted), x) THEN <<Head(sorted)>> \o Insert(Tail(sorted), x)
    ELSE <<x>> \o sorted

RECURSIVE SortUnstable(_)
SortUnstable(v) == IF v = <<>> THEN <<>> ELSE Insert(SortUnstable(Tail(v)), Head(v))

\* Vec::dedup: of each run of equal neighbours, the first is kept
RECURSIVE Dedup(_)
Dedup(v) ==
    IF Len(v) <= 1 THEN v
    ELSE IF v[1] = v[2] THEN Dedup(Tail(v))
    ELSE <<v[1]>> \o Dedup(Tail(v))

(***************************************************************************)
(* Session options: sam_options.rs.  An Option<T> is None or Some(v); a    *)
(* struct is a record of its fields.  Each string() pushes one             *)
(* "KEY=VALUE " piece per field that is Some, in the order of the source;  *)
(* ToString for SAMOptions then splits what was pushed at every ' ',       *)
(* sorts the pieces, drops repeated neighbours and joins each piece with   *)
(* a ' ' after it.                                                         *)
(***************************************************************************)

\* the largest FROM_PORT and TO_PORT an options value carries
MaxOptPort == 1

None == [some |-> FALSE]

Some(v) == [some |-> TRUE, v |-> v]

\* Display for an integer
DisplayInt(n) == ToString(n)

\* Display for a bool
DisplayBool(b) == IF b THEN "true" ELSE "false"

\* Display for a String, and to_string of the newtypes over String
DisplayStr(str) == str

\* ToString for LeaseSetAuthType
LeaseSetAuthTypeToString(t) ==
    CASE t = "NoPerClient"  -> "0"
      [] t = "DHPerClient"  -> "1"
      [] t = "PSKPerClient" -> "2"

\* ToString for MessageReliability
MessageReliabilityToString(r) ==
    CASE r = "BestEffort" -> "BestEffort"
      [] r = "None"       -> "None"

\* ToString for SignatureType
SignatureTypeToString(t) ==
    CASE t = "DsaSha1"              -> "DSA_SHA1"
      [] t = "EcdsaSha256P256"      -> "ECDSA_SHA256_P256"
      [] t = "EcdsaSha384P384"      -> "ECDSA_SHA384_P384"
      [] t = "EcdsaSha512P21"       -> "ECDSA_SHA512_P521"
      [] t = "RsaSha256_2048"       -> "RSA_SHA256_2048"
      [] t = "RsaSha384_3072"       -> "RSA_SHA384_3072"
      [] t = "RsaSha512_4096"       -> "RSA_SHA512_4096"
      [] t = "EdDsaSha512Ed25519"   -> "EdDSA_SHA512_Ed25519"
      [] t = "EdDsaSha512Ed25519ph" -> "EdDSA_SHA512_Ed25519ph"
      [] t = "RedDsaSha512Ed25519"  -> "RedDSA_SHA512_Ed25519"

\* LeaseSetEncType::default()
LeaseSetEncTypeDefault == "4,0"

\* if let Some(v) = field { options.push_str(&format!("{key}{v} ")) }
PushStr(options, key, field, Display(_)) ==
    IF field.some THEN options \o key \o Display(field.v) \o " " ELSE options

\* if let Some(inner) = field { if !inner.string().is_empty() { push_str } }
PushInner(options, field, String(_)) ==
    IF field.some THEN options \o String(field.v) ELSE options

\* the fields of I2CPRouterCryptoOptions, all None
I2CPRouterCryptoOptionsDefault ==
    [low_tag_threshold |-> None, ratchet_inbound_tags |-> None,
     ratchet_outbound_tags |-> None, tags_to_send |-> None]

\* I2CPRouterCryptoOptions::string
RouterCryptoString(o) ==
    LET a == PushStr("", "crypto.lowTagThreshold=", o.low_tag_threshold, DisplayInt)
        b == PushStr(a, "crypto.ratchet.inboundTags=", o.ratchet_inbound_tags, DisplayInt)
        c == PushStr(b, "crypto.ratchet.outboundTags=", o.ratchet_outbound_tags, DisplayInt)
    IN  PushStr(c, "crypto.tagsToSend=", o.tags_to_send, DisplayInt)

\* the fields of I2CPTunnelInboundOptions, all None
I2CPTunnelInboundOptionsDefault ==
    [allow_zero_hop |-> None, backup_quantity |-> None, ip_restriction |-> None,
     length |-> None, length_variance |-> None, quantity |-> None,
     random_key |-> None]

\* I2CPTunnelInboundOptions::string
TunnelInboundString(o) ==
    LET a == PushStr("", "inbound.allowZeroHop=", o.allow_zero_hop, DisplayBool)
        b == PushStr(a, "inbound.backupQuantity=", o.backup_quantity, DisplayInt)
        c == PushStr(b, "inbound.IPRestriction=", o.ip_restriction, DisplayInt)
        d == PushStr(c, "inbound.length=", o.length, DisplayInt)
        e == PushStr(d, "inbound.lengthVariance", o.length_variance, DisplayInt)
        f == PushStr(e, "inbound.quantity=", o.quantity, DisplayInt)
    IN  PushStr(f, "inbound.randomKey=", o.random_key, DisplayStr)

\* the fields of I2CPTunnelOutboundOptions, all None
I2CPTunnelOutboundOptionsDefault ==
    [allow_zero_hop |-> None, backup_quantity |-> None, ip_restriction |-> None,
     length |-> None, length_variance |-> None, priority |-> None,
     quantity |-> None, random_key |-> None]

\* I2CPTunnelOutboundOptions::string
TunnelOutboundString(o) ==
    LET a == PushStr("", "outbound.allowZeroHop=", o.allow_zero_hop, DisplayBool)
        b == PushStr(a, "outbound.backupQuantity=", o.backup_quantity, DisplayInt)
        c == PushStr(b, "outbound.IPRestriction=", o.ip_restriction, DisplayInt)
        d == PushStr(c, "outbound.length=", o.length, DisplayInt)
        e == PushStr(d, "outbound.lengthVariance", o.length_variance, DisplayInt)
        f == PushStr(e, "outbound.priority=", o.priority, DisplayInt)
        g == PushStr(f, "outbound.quantity=", o.quantity, DisplayInt)
    IN  PushStr(g, "outbound.randomKey=", o.random_key, DisplayStr)

\* I2CPRouterOptions::default(): every field None
I2CPRouterOptionsDefault ==
    [client_message_timeout |-> None, crypto_options |-> None,
     dont_publish_lease_set |-> None, fast_receive |-> None,
     lease_set_auth_type |-> None, lease_set_enc_type |-> None,
     lease_set_offline_expiration |-> None, lease_set_offline_signature |-> None,
     lease_set_priv_key |-> None, lease_set_secret |-> None,
     lease_set_transient_public_key |-> None, lease_set_type |-> None,
     message_reliability |-> None, username |-> None, password |-> None,
     inbound |-> None, outbound |-> None, should_bundle_reply_info |-> None]

\* I2CPRouterOptions::string; lease_set_offline_signature is not rendered
RouterString(o) ==
    LET a == PushStr("", "clientMessageTimeout=", o.client_message_timeout, DisplayInt)
        b == PushInner(a, o.crypto_options, RouterCryptoString)
        c == PushStr(b, "i2cp.dontPublishLeaseSet=", o.dont_publish_lease_set, DisplayBool)
        d == PushStr(c, "i2cp.fastReceive=", o.fast_receive, DisplayBool)
        e == PushStr(d, "i2cp.leaseSetAuthType=", o.lease_set_auth_type, LeaseSetAuthTypeToString)
        f == PushStr(e, "i2cp.leaseSetEncType=", o.lease_set_enc_type, DisplayStr)
        g == PushStr(f, "i2cp.leaseSetOfflineExpiration=", o.lease_set_offline_expiration, DisplayStr)
        h == PushStr(g, "i2cp.leaseSetPrivKey=", o.lease_set_priv_key, DisplayStr)
        i == PushStr(h, "i2cp.leaseSetSecret=", o.lease_set_secret, DisplayStr)
        j == PushStr(i, "i2cp.leaseSetTransientPublicKey=", o.lease_set_transient_public_key, DisplayStr)
        k == PushStr(j, "i2cp.leaseSetType=", o.lease_set_type, DisplayInt)
        l == PushStr(k, "i2cp.messageReliability=", o.message_reliability, MessageReliabilityToString)
        m == PushStr(l, "i2cp.password=", o.password, DisplayStr)
        n == PushStr(m, "i2cp.username=", o.username, DisplayStr)
        p == PushInner(n, o.inbound, TunnelInboundString)
        q == PushInner(p, o.outbound, TunnelOutboundString)
    IN  PushStr(q, "shouldBundleReplyInfo=", o.should_bundle_reply_info, DisplayBool)

\* I2CPClientOptions::default(): every field None
I2CPClientOptionsDefault ==
    [close_idle_time |-> None, close_on_idle |-> None, encrypt_lease_set |-> None,
     fast_receive |-> None, gzip |-> None, lease_set_auth_type |-> None,
     lease_set_blinded_type |-> None, lease_set_enc_type |-> None,
     lease_set_key |-> None, lease_set_private_key |-> None,
     lease_set_secret |-> None, lease_set_signing_private_key |-> None,
     message_reliability |-> None, reduce_idle_time |-> None,
     reduce_on_idle |-> None, reduce_quantity |-> None, ssl |-> None,
     tcp_host |-> None, tcp_port |-> None]

\* I2CPClientOptions::string; reduce_quantity is not rendered
ClientString(o) ==
    LET a == PushStr("", "i2cp.closeIdleTime=", o.close_idle_time, DisplayInt)
        b == PushStr(a, "i2cp.closeOnIdle=", o.close_on_idle, DisplayBool)
        c == PushStr(b, "i2cp.encryptLeaseSet=", o.encrypt_lease_set, DisplayBool)
        d == PushStr(c, "i2cp.fastReceive=", o.fast_receive, DisplayBool)
        e == PushStr(d, "i2cp.gzip=", o.gzip, DisplayBool)
        f == PushStr(e, "i2cp.leaseSetAuthType=", o.lease_set_auth_type, LeaseSetAuthTypeToString)
        g == PushStr(f, "i2cp.leaseSetBlindedType=", o.lease_set_blinded_type, DisplayInt)
        h == PushStr(g, "i2cp.leaseSetEncType=", o.lease_set_enc_type, DisplayStr)
        i == PushStr(h, "i2cp.leaseSetKey=", o.lease_set_key, DisplayStr)
        j == PushStr(i, "i2cp.leaseSetPrivateKey=", o.lease_set_private_key, DisplayStr)
        k == PushStr(j, "i2cp.leaseSetSecret=", o.lease_set_secret, DisplayStr)
        l == PushStr(k, "i2cp.leaseSetSigningPrivateKey=", o.lease_set_signing_private_key, DisplayStr)
        m == PushStr(l, "i2cp.messageReliability=", o.message_reliability, MessageReliabilityToString)
        n == PushStr(m, "i2cp.reduceIdleTime=", o.reduce_idle_time, DisplayInt)
        p == PushStr(n, "i2cp.reduceOnIdle=", o.reduce_on_idle, DisplayBool)
        q == PushStr(p, "i2cp.ssl=", o.ssl, DisplayBool)
        r == PushStr(q, "i2cp.tcp.host=", o.tcp_host, DisplayStr)
    IN  PushStr(r, "i2cp.tcp.port=", o.tcp_port, DisplayInt)

\* I2CPOptions::string: the router options, then the client options
I2CPString(o) ==
    PushInner(PushInner("", o.router_options, RouterString), o.client_options, ClientString)

\* the string pushed before the split: FROM_PORT, TO_PORT, the I2CP options;
\* signature_type is not pushed
Pushed(o) ==
    LET a == PushStr("", "FROM_PORT=", o.from_port, DisplayInt)
        b == PushStr(a, "TO_PORT=", o.to_port, DisplayInt)
    IN  PushInner(b, o.i2cp_options, I2CPString)

\* for option_part in options_parts { push_str(&format!("{option_part} ")) }
RECURSIVE JoinParts(_)
JoinParts(parts) ==
    IF parts = <<>> THEN "" ELSE Head(parts) \o " " \o JoinParts(Tail(parts))

\* options_parts after split(' '), sort_unstable() and dedup()
OptionsParts(o) == Dedup(SortUnstable(Split(Pushed(o), " ")))

\* ToString for SAMOptions; SAMOptions::options returns self.to_string()
SAMOptionsToString(o) == JoinParts(OptionsParts(o))

\* Default for SAMOptions
SAMOptionsDefault ==
    [to_port |-> None, from_port |-> None,
     i2cp_options |-> Some(
        [client_options |-> Some([I2CPClientOptionsDefault EXCEPT
                                    !.lease_set_enc_type = Some(LeaseSetEncTypeDefault)]),
         router_options |-> Some([I2CPRouterOptionsDefault EXCEPT
                                    !.lease_set_enc_type = Some(LeaseSetEncTypeDefault)])]),
     signature_type |-> "EdDsaSha512Ed25519"]

(***************************************************************************)
(* Reply parsers: parsers.rs.  A parser takes the input text and returns   *)
(* Ok with the text left over and what it recognised, or an error:         *)
(* Err::Error (the parser does not match here), or Err::Incomplete (the    *)
(* input ended before the parser could decide).  tag! and take_till! are   *)
(* the streaming parsers; alphanumeric1 and space1 are imported from       *)
(* character::complete.                                                    *)
(***************************************************************************)

\* most KEY=VALUE pairs on a reply line
MaxLinePairs == 2

POk(rest, out) == [ok |-> TRUE, rest |-> rest, out |-> out]

PError(kind) == [ok |-> FALSE, how |-> "Error", kind |-> kind]

PIncomplete == [ok |-> FALSE, how |-> "Incomplete", kind |-> "Needed"]

\* the text after the first n chars
Skip(i, n) == SubSeq(i, n + 1, Len(i))

\* how many chars at the start of i are in the set class
LeadingRun(i, class) ==
    LET stop == { k \in 1..Len(i) : CharAt(i, k) \notin class }
    IN  IF stop = {} THEN Len(i)
        ELSE (CHOOSE k \in stop : \A j \in stop : k <= j) - 1

is_space(chr) == chr = " " \/ chr = "\t"

is_next_line(chr) == chr = "\n"

is_space_or_next_line(chr) == is_space(chr) \/ is_next_line(chr)

is_double_quote(chr) == chr = "\""

AlphaNumerics == "0123456789ABCDEFGHIJKLMNOPQRSTUVWXYZabcdefghijklmnopqrstuvwxyz"

is_alphanumeric(chr) == PositionsOf(AlphaNumerics, chr) # {}

\* the chars a predicate holds of
CharsSpace == { chr \in Chars : is_space(chr) }

CharsNotNextLine == { chr \in Chars : ~is_next_line(chr) }

CharsNotSpaceOrNextLine == { chr \in Chars : ~is_space_or_next_line(chr) }

CharsNotDoubleQuote == { chr \in Chars : ~is_double_quote(chr) }

CharsAlphanumeric == { chr \in Chars : is_alphanumeric(chr) }

\* tag!(t): the input starts with t; Incomplete when the input ends inside t
tag(t, i) ==
    LET n == Min(Len(t), Len(i))
    IN  IF SubSeq(i, 1, n) # SubSeq(t, 1, n) THEN PError("Tag")
        ELSE IF Len(i) < Len(t) THEN PIncomplete
        ELSE POk(Skip(i, Len(t)), t)

\* take_till!(until): the chars before the first one that satisfies until,
\* given the set of the chars that do not; Incomplete when no char of the
\* input satisfies it
take_till(i, not_until) ==
    LET n == LeadingRun(i, not_until)
    IN  IF n = Len(i) THEN PIncomplete ELSE POk(Skip(i, n), SubSeq(i, 1, n))

\* character::complete::alphanumeric1: one or more letters or digits
alphanumeric(i) ==
    LET n == LeadingRun(i, CharsAlphanumeric)
    IN  IF n = 0 THEN PError("AlphaNumeric") ELSE POk(Skip(i, n), SubSeq(i, 1, n))

\* character::complete::space1: one or more spaces or tabs
space(i) ==
    LET n == LeadingRun(i, CharsSpace)
    IN  IF n = 0 THEN PError("Space") ELSE POk(Skip(i, n), SubSeq(i, 1, n))

\* quoted_value: '"', the chars up to the next '"', '"'
quoted_value(i) ==
    LET after_close(val, close) ==
            IF ~close.ok THEN close ELSE POk(close.rest, val.out)
        after_val(val) ==
            IF ~val.ok THEN val ELSE after_close(val, tag("\"", val.rest))
        after_open(open) ==
            IF ~open.ok THEN open
            ELSE after_val(take_till(open.rest, CharsNotDoubleQuote))
    IN  after_open(tag("\"", i))

\* the chars up to the next newline
rest_of_line(i) == take_till(i, CharsNotNextLine)

\* value: the chars up to the next space, tab or newline
value(i) == take_till(i, CharsNotSpaceOrNextLine)

\* alt!(quoted_value | value): the second only after Err::Error of the first
quoted_or_value(i) ==
    LET after_quoted(quoted) ==
            IF quoted.ok \/ quoted.how # "Error" THEN quoted ELSE value(i)
    IN  after_quoted(quoted_value(i))

\* key_value: alphanumeric, '=', alt!(quoted_value | value)
key_value(i) ==
    LET after_val(key, val) ==
            IF ~val.ok THEN val ELSE POk(val.rest, <<key.out, val.out>>)
        after_eq(key, eq) ==
            IF ~eq.ok THEN eq ELSE after_val(key, quoted_or_value(eq.rest))
        after_key(key) ==
            IF ~key.ok THEN key ELSE after_eq(key, tag("=", key.rest))
    IN  after_key(alphanumeric(i))

\* the loop of separated_list: after the pairs in res, with i left over
RECURSIVE separated_list_loop(_, _)
separated_list_loop(i, res) ==
    LET after_next(next) ==
            IF ~next.ok THEN (IF next.how = "Error" THEN POk(i, res) ELSE next)
            ELSE IF next.rest = i THEN PError("SeparatedList")
            ELSE separated_list_loop(next.rest, Append(res, next.out))
        after_sep(sep) ==
            IF ~sep.ok THEN (IF sep.how = "Error" THEN POk(i, res) ELSE sep)
            ELSE IF sep.rest = i THEN PError("SeparatedList")
            ELSE after_next(key_value(sep.rest))
    IN  after_sep(space(i))

\* keys_and_values: separated_list!(space, key_value)
keys_and_values(i) ==
    LET after_first(first) ==
            IF ~first.ok THEN (IF first.how = "Error" THEN POk(i, <<>>) ELSE first)
            ELSE IF first.rest = i THEN PError("SeparatedList")
            ELSE separated_list_loop(first.rest, <<first.out>>)
    IN  after_first(key_value(i))

\* do_parse!(tag!(t) >> opts: keys_and_values >> tag!("\n") >> (opts))
reply(t, i) ==
    LET after_eol(opts, eol) ==
            IF ~eol.ok THEN eol ELSE POk(eol.rest, opts.out)
        after_opts(opts) ==
            IF ~opts.ok THEN opts ELSE after_eol(opts, tag("\n", opts.rest))
        after_head(head) ==
            IF ~head.ok THEN head ELSE after_opts(keys_and_values(head.rest))
    IN  after_head(tag(t, i))

sam_hello(i) == reply("HELLO REPLY ", i)

sam_session_status(i) == reply("SESSION STATUS ", i)

sam_stream_status(i) == reply("STREAM STATUS ", i)

sam_naming_reply(i) == reply("NAMING REPLY ", i)

sam_dest_reply(i) == reply("DEST REPLY ", i)

ReplyParsers ==
    {"sam_hello", "sam_session_status", "sam_stream_status", "sam_naming_reply",
     "sam_dest_reply"}

\* the reply parser of that name, applied
Parse(parser, i) ==
    CASE parser = "sam_hello"          -> sam_hello(i)
      [] parser = "sam_session_status" -> sam_session_status(i)
      [] parser = "sam_stream_status"  -> sam_stream_status(i)
      [] parser = "sam_naming_reply"   -> sam_naming_reply(i)
      [] parser = "sam_dest_reply"     -> sam_dest_reply(i)

(***************************************************************************)
(* The lines a bridge sends.  A line is composed from a shape: the two     *)
(* words of the tag and what is between them, the pairs (a value written   *)
(* bare, in double quotes, or with the closing quote left out), what       *)
(* separates two pairs, and what stands between the last pair and the      *)
(* newline.                                                                *)
(***************************************************************************)

\* the two words of the tag each parser expects
TagWords(parser) ==
    CASE parser = "sam_hello"          -> <<"HELLO", "REPLY">>
      [] parser = "sam_session_status" -> <<"SESSION", "STATUS">>
      [] parser = "sam_stream_status"  -> <<"STREAM", "STATUS">>
      [] parser = "sam_naming_reply"   -> <<"NAMING", "REPLY">>
      [] parser = "sam_dest_reply"     -> <<"DEST", "REPLY">>

\* how a line starts: the tag, the tag without its inner space, the tag with
\* two inner spaces, no tag
TagForms == {"tag", "joined", "doubled", "missing"}

TagText(parser, form) ==
    CASE form = "tag"     -> TagWords(parser)[1] \o " " \o TagWords(parser)[2] \o " "
      [] form = "joined"  -> TagWords(parser)[1] \o TagWords(parser)[2] \o " "
      [] form = "doubled" -> TagWords(parser)[1] \o "  " \o TagWords(parser)[2] \o " "
      [] form = "missing" -> ""

LineKeys == {"RESULT", "MESSAGE"}

\* the value each key carries: a result code, a text with a space in it
LineValue(key) == IF key = "RESULT" THEN "OK" ELSE "Something failed"

ValueForms == {"bare", "quoted", "unterminated"}

\* a pair as the shape holds it; a value with a space is never written bare
LinePairs ==
    { p \in [key : LineKeys, val : {LineValue(k) : k \in LineKeys}, form : ValueForms] :
        /\ p.val = LineValue(p.key)
        /\ p.form = "bare" => PositionsOf(p.val, " ") = {} }

PairText(p) ==
    CASE p.form = "bare"         -> p.key \o "=" \o p.val
      [] p.form = "quoted"       -> p.key \o "=\"" \o p.val \o "\""
      [] p.form = "unterminated" -> p.key \o "=\"" \o p.val

Separators == {" ", "  ", "\t"}

Trailers == {"", " junk"}

RECURSIVE PairsText(_, _)
PairsText(pairs, sep) ==
    IF pairs = <<>> THEN ""
    ELSE IF Len(pairs) = 1 THEN PairText(pairs[1])
    ELSE PairText(pairs[1]) \o sep \o PairsText(Tail(pairs), sep)

\* the line of a shape
LineOf(shape) ==
    TagText(shape.parser, shape.tag) \o PairsText(shape.pairs, shape.sep)
        \o shape.trail \o "\n"

\* the shapes: one to MaxLinePairs pairs; a line whose tag deviates deviates
\* nowhere else
LineShapes ==
    { sh \in [parser : ReplyParsers, tag : TagForms,
              pairs : SeqsUpTo(LinePairs, MaxLinePairs) \ {<<>>},
              sep : Separators, trail : Trailers] :
        /\ sh.tag # "tag" => (sh.sep = " " /\ sh.trail = "")
        /\ Len(sh.pairs) = 1 => sh.sep = " " }

ParseInit ==
    /\ VerifyIdle
    /\ StreamIdle
    /\ ConnIdle
    /\ WatchIdle
    /\ WireIdle
    /\ HandleIdle
    /\ OptIdle
    /\ AddrIdle
    /\ IncomingIdle
    /\ SharedIdle
    /\ TruncIdle
    /\ pr_pc = "composed"
    /\ pr_shape \in LineShapes
    /\ pr_line = ""
    /\ pr_ret = NoParse

\* read_line: the line the bridge sent is in send's buffer
PrReadLine ==
    /\ pr_pc = "composed"
    /\ pr_line' = LineOf(pr_shape)
    /\ pr_pc' = "read"
    /\ UNCHANGED <<pr_shape, pr_ret>>
    /\ UNCHANGED <<verifyVars, streamVars, connVars, watchVars, wireVars, handleVars, optVars, addrVars, incVars, shareVars, truncVars>>

\* reply_parser(&buffer)
PrParse ==
    /\ pr_pc = "read"
    /\ pr_ret' = Parse(pr_shape.parser, pr_line)
    /\ pr_pc' = "parsed"
    /\ UNCHANGED <<pr_shape, pr_line>>
    /\ UNCHANGED <<verifyVars, streamVars, connVars, watchVars, wireVars, handleVars, optVars, addrVars, incVars, shareVars, truncVars>>

NextParse == PrReadLine \/ PrParse

SpecParse == ParseInit /\ [][NextParse]_vars

(***************************************************************************)
(* Claims about the reply parsers.                                         *)
(***************************************************************************)

\* a well-formed line: the tag, pairs separated by one space whose values are
\* bare or in closed quotes, and the newline right after the last pair
WellFormed(shape) ==
    /\ shape.tag = "tag"
    /\ shape.sep = " "
    /\ shape.trail = ""
    /\ \A k \in 1..Len(shape.pairs) : shape.pairs[k].form \in {"bare", "quoted"}

\* the keys and values the line was composed from, in their order
PairsOf(shape) == [k \in 1..Len(shape.pairs) |-> <<shape.pairs[k].key, shape.pairs[k].val>>]

\* C24: for every well-formed reply line, the reply parser of its tag returns
\* Ok with the pairs in the order they appear, keys and values unchanged, and
\* leaves no input unparsed; a double-quoted value is returned without its
\* quotes and with its interior spaces.
C24_WellFormedLineRoundTrips ==
    (pr_pc = "parsed" /\ WellFormed(pr_shape)) => pr_ret = POk("", PairsOf(pr_shape))

\* C24 witness: a well-formed line of two pairs, one value bare and one quoted
\* with a space inside, has been parsed
C24_Witness ==
    /\ pr_pc = "parsed"
    /\ WellFormed(pr_shape)
    /\ Len(pr_shape.pairs) = 2
    /\ pr_shape.pairs[1].form = "bare"
    /\ pr_shape.pairs[2].form = "quoted"
    /\ PositionsOf(pr_shape.pairs[2].val, " ") # {}
    /\ pr_ret.ok

\* the deviations from the grammar: no tag, a tag without its inner space or
\* with two, two spaces between pairs, a quoted value that is not closed,
\* text between the last pair and the newline
Deviates(shape) ==
    \/ shape.tag # "tag"
    \/ Len(shape.pairs) > 1 /\ shape.sep = "  "
    \/ \E k \in 1..Len(shape.pairs) : shape.pairs[k].form = "unterminated"
    \/ shape.trail # ""

\* C25: each reply parser fails on every line that deviates from the grammar;
\* no such line is accepted as a reply.
C25_DeviantLinesRejected ==
    (pr_pc = "parsed" /\ Deviates(pr_shape)) => ~pr_ret.ok

(***************************************************************************)
(* Destinations in base 64: net/i2p.rs I2pAddr::from_b64.  A byte is a     *)
(* number in 0..255.  BASE64_I2P is the padded base 64 of four symbols to  *)
(* three bytes over the alphabet of the source.  The SHA-256 digest and    *)
(* its base-32 text are kept as terms over the bytes hashed: the model     *)
(* does not compute them.                                                  *)
(***************************************************************************)

\* most bytes in a destination
MaxDestBytes == 3

\* BASE64_I2P: spec.symbols
B64Symbols == "ABCDEFGHIJKLMNOPQRSTUVWXYZabcdefghijklmnopqrstuvwxyz0123456789-~"

\* BASE64_I2P: spec.padding
B64Padding == "="

IsB64Symbol(chr) == PositionsOf(B64Symbols, chr) # {}

\* the symbols counted from one
B64ValueFromOne(chr) == IndexIn(B64Symbols, chr) % 64

\* the six bits of a symbol
B64Value(chr) == IndexIn(B64Symbols, chr) - 1

DecodeOk(bytes) == [ok |-> TRUE, bytes |-> bytes]

DecodeError(kind) == [ok |-> FALSE, kind |-> kind]

\* one block of four chars: no padding, or one or two padding chars at its
\* end; the bits that fill no byte must be zero
DecodeBlock(block) ==
    LET npad == IF CharAt(block, 4) # B64Padding THEN 0
                ELSE IF CharAt(block, 3) # B64Padding THEN 1
                ELSE 2
        v(k) == B64Value(CharAt(block, k))
    IN  IF \E k \in 1..(4 - npad) : ~IsB64Symbol(CharAt(block, k))
        THEN IF \E k \in 1..(4 - npad) : CharAt(block, k) = B64Padding
             THEN DecodeError("Padding")
             ELSE DecodeError("Symbol")
        ELSE IF npad = 0
        THEN LET bits == ((v(1) * 64 + v(2)) * 64 + v(3)) * 64 + v(4)
             IN  DecodeOk(<<bits \div 65536, (bits \div 256) % 256, bits % 256>>)
        ELSE IF npad = 1
        THEN LET bits == (v(1) * 64 + v(2)) * 64 + v(3)
             IN  IF bits % 4 # 0 THEN DecodeError("Trailing")
                 ELSE DecodeOk(<<bits \div 1024, (bits \div 4) % 256>>)
        ELSE LET bits == v(1) * 64 + v(2)
             IN  IF bits % 16 # 0 THEN DecodeError("Trailing")
                 ELSE DecodeOk(<<bits \div 16>>)

RECURSIVE DecodeBlocks(_)
DecodeBlocks(text) ==
    IF text = "" THEN DecodeOk(<<>>)
    ELSE LET first == DecodeBlock(SubSeq(text, 1, 4))
             others == DecodeBlocks(Skip(text, 4))
         IN  IF ~first.ok THEN first
             ELSE IF ~others.ok THEN others
             ELSE DecodeOk(first.bytes \o others.bytes)

\* BASE64_I2P.decode: whole blocks of four chars, each decoded
decode(text) ==
    IF Len(text) % 4 # 0 THEN DecodeError("Length") ELSE DecodeBlocks(text)

\* Sha256::new(), update(bin_data), finalize(): the digest, as a term
Sha256(bin_data) == [sha256_of |-> bin_data]

\* BASE32_I2P.encode(digest), then push_str(B32_EXT)
Base32WithExt(digest) == [b32_sha256_of |-> digest.sha256_of, ext |-> B32_EXT]

FromB64Ok(addr) == [ok |-> TRUE, addr |-> addr]

\* I2PError::BadAddressEncoding(dest.to_string())
BadAddressEncoding(dest) == [ok |-> FALSE, kind |-> "BadAddressEncoding", dest |-> dest]

\* I2pAddr::from_b64
I2pAddrFromB64(dest) ==
    LET bin_data == decode(dest)
    IN  IF ~bin_data.ok THEN BadAddressEncoding(dest)
        ELSE FromB64Ok([inner |-> Base32WithExt(Sha256(bin_data.bytes))])

(***************************************************************************)
(* The destination texts from_b64 is given: the I2P base-64 text of some   *)
(* bytes, as a router writes it, and texts damaged in one way.             *)
(***************************************************************************)

B64SymbolOf(v) == CharAt(B64Symbols, v + 1)

\* the base-64 text of at most three bytes: four chars, padded
EncodeGroup(bytes) ==
    CASE Len(bytes) = 3 ->
            LET bits == (bytes[1] * 256 + bytes[2]) * 256 + bytes[3]
            IN  B64SymbolOf(bits \div 262144) \o B64SymbolOf((bits \div 4096) % 64)
                    \o B64SymbolOf((bits \div 64) % 64) \o B64SymbolOf(bits % 64)
      [] Len(bytes) = 2 ->
            LET bits == (bytes[1] * 256 + bytes[2]) * 4
            IN  B64SymbolOf(bits \div 4096) \o B64SymbolOf((bits \div 64) % 64)
                    \o B64SymbolOf(bits % 64) \o B64Padding
      [] Len(bytes) = 1 ->
            LET bits == bytes[1] * 16
            IN  B64SymbolOf(bits \div 64) \o B64SymbolOf(bits % 64)
                    \o B64Padding \o B64Padding

RECURSIVE Encode64(_)
Encode64(bytes) ==
    IF bytes = <<>> THEN ""
    ELSE IF Len(bytes) <= 3 THEN EncodeGroup(bytes)
    ELSE EncodeGroup(SubSeq(bytes, 1, 3)) \o Encode64(SubSeq(bytes, 4, Len(bytes)))

DestBytes == {0, 1, 254, 255}

\* how a text is damaged: not at all, a symbol of the standard alphabet in
\* place of the first char, the last char cut off, a padding char added, a
\* padding char in place of the first char
Damages == {"none", "plus", "slash", "cut", "padded", "pad_first"}

Damaged(text, damage) ==
    CASE damage = "none"      -> text
      [] damage = "plus"      -> "+" \o Skip(text, 1)
      [] damage = "slash"     -> "/" \o Skip(text, 1)
      [] damage = "cut"       -> SubSeq(text, 1, Len(text) - 1)
      [] damage = "padded"    -> text \o B64Padding
      [] damage = "pad_first" -> B64Padding \o Skip(text, 1)

\* the empty destination is damaged by the added padding char only
B64Inputs ==
    { in \in [bytes : SeqsUpTo(DestBytes, MaxDestBytes), damage : Damages] :
        in.bytes = <<>> => in.damage \in {"none", "padded"} }

B64Init ==
    /\ VerifyIdle
    /\ StreamIdle
    /\ ConnIdle
    /\ WatchIdle
    /\ WireIdle
    /\ HandleIdle
    /\ OptIdle
    /\ ParseIdle
    /\ IncomingIdle
    /\ SharedIdle
    /\ TruncIdle
    /\ ad_pc = "given"
    /\ ad_in \in B64Inputs
    /\ ad_text = ""
    /\ ad_ret = NoAddrRet

\* the destination text reaches the caller of from_b64
AdDestText ==
    /\ ad_pc = "given"
    /\ ad_text' = Damaged(Encode64(ad_in.bytes), ad_in.damage)
    /\ ad_pc' = "text"
    /\ UNCHANGED <<ad_in, ad_ret>>
    /\ UNCHANGED <<verifyVars, streamVars, connVars, watchVars, wireVars, handleVars, optVars, parseVars, incVars, shareVars, truncVars>>

\* I2pAddr::from_b64(dest)
AdFromB64 ==
    /\ ad_pc = "text"
    /\ ad_ret' = I2pAddrFromB64(ad_text)
    /\ ad_pc' = "done"
    /\ UNCHANGED <<ad_in, ad_text>>
    /\ UNCHANGED <<verifyVars, streamVars, connVars, watchVars, wireVars, handleVars, optVars, parseVars, incVars, shareVars, truncVars>>

NextB64 == AdDestText \/ AdFromB64

SpecB64 == B64Init /\ [][NextB64]_vars

(***************************************************************************)
(* Claims about I2pAddr::from_b64.                                         *)
(***************************************************************************)

\* C26: for every destination text that is the I2P base-64 of some bytes,
\* from_b64 returns the address that displays as the lowercase unpadded base 32
\* of the SHA-256 of those bytes followed by ".b32.i2p"; for every text that is
\* not valid I2P base 64 it returns BadAddressEncoding and no address.
C26_FromB64HashesDecodedBytes ==
    ad_pc = "done" =>
        IF ad_in.damage = "none"
        THEN /\ ad_ret.ok
             /\ ad_ret.addr.inner.b32_sha256_of = ad_in.bytes
             /\ ad_ret.addr.inner.ext = ".b32.i2p"
        ELSE /\ ~ad_ret.ok
             /\ ad_ret.kind = "BadAddressEncoding"
             /\ "addr" \notin DOMAIN ad_ret

\* C26 witness: a padded text with a symbol that only the I2P alphabet has was
\* converted to an address
C26_Witness ==
    /\ ad_pc = "done"
    /\ ad_in.damage = "none"
    /\ PositionsOf(ad_text, "~") # {}
    /\ PositionsOf(ad_text, "=") # {}
    /\ ad_ret.ok

(***************************************************************************)
(* Socket addresses: net/addr.rs.  Display for I2pSocketAddr, and          *)
(* ToI2pSocketAddrs for str, for (I2pAddr, u16), for (&str, u16) and for   *)
(* I2pSocketAddr.                                                          *)
(***************************************************************************)

\* u16::MAX
U16Max == 65535

Digits == "0123456789"

IsDigit(chr) == PositionsOf(Digits, chr) # {}

\* the number a run of decimal digits writes
RECURSIVE DecimalValue(_)
DecimalValue(digits) ==
    IF digits = "" THEN 0
    ELSE 10 * DecimalValue(SubSeq(digits, 1, Len(digits) - 1))
            + (IndexIn(Digits, CharAt(digits, Len(digits))) - 1)

\* str::parse::<u16>().ok(): an optional '+', then one or more digits, of a
\* value that fits 16 bits
ParseU16(text) ==
    LET digits == IF Len(text) > 0 /\ CharAt(text, 1) = "+" THEN Skip(text, 1) ELSE text
    IN  IF digits = "" \/ \E k \in 1..Len(digits) : ~IsDigit(CharAt(digits, k))
        THEN None
        ELSE IF DecimalValue(digits) > U16Max THEN None
        ELSE Some(DecimalValue(digits))

\* I2pAddr::new
I2pAddrNew(dest) == [inner |-> dest]

\* Display for I2pSocketAddr: write!(f, "{}:{}", self.dest(), self.port())
DisplaySocketAddr(a) == a.dest.inner \o ":" \o ToString(a.port)

ResolveOk(addrs) == [ok |-> TRUE, addrs |-> addrs]

\* io::Error::new(io::ErrorKind::InvalidInput, msg)
InvalidInput(msg) == [ok |-> FALSE, kind |-> "InvalidInput", msg |-> msg]

\* ToI2pSocketAddrs for I2pSocketAddr: Some(self.clone()).into_iter()
ToSocketAddrsAddr(a) == ResolveOk(<<a>>)

\* ToI2pSocketAddrs for (I2pAddr, u16)
ToSocketAddrsAddrPort(dest, port) == ToSocketAddrsAddr(I2pSocketAddr(dest, port))

\* ToI2pSocketAddrs for (&str, u16)
ToSocketAddrsHostPort(host, port) == ResolveOk(<<I2pSocketAddr(I2pAddrNew(host), port)>>)

\* the place of the first ':'
FirstColon(text) ==
    CHOOSE k \in PositionsOf(text, ":") : \A j \in PositionsOf(text, ":") : k <= j

\* rsplitn(2, ':'): the place of the last ':'
LastColon(text) ==
    CHOOSE k \in PositionsOf(text, ":") : \A j \in PositionsOf(text, ":") : j <= k

\* ToI2pSocketAddrs for str
ToSocketAddrsStr(text) ==
    IF PositionsOf(text, ":") = {} THEN InvalidInput("invalid I2P socket address")
    ELSE LET port_str == Skip(text, LastColon(text))
             host == SubSeq(text, 1, LastColon(text) - 1)
             port == ParseU16(port_str)
         IN  IF ~port.some THEN InvalidInput("invalid port value")
             ELSE ToSocketAddrsHostPort(host, port.v)

\* the destinations of the addresses resolved
Hosts == {"example.i2p", "a:b", ""}

\* the ports of the typed arguments
U16Ports == {0, 80, U16Max}

\* the texts in the place of a port, with whether each writes a u16 and which
PortTexts ==
    { [text |-> "0", valid |-> TRUE, port |-> 0],
      [text |-> "80", valid |-> TRUE, port |-> 80],
      [text |-> "+80", valid |-> TRUE, port |-> 80],
      [text |-> "080", valid |-> TRUE, port |-> 80],
      [text |-> "65535", valid |-> TRUE, port |-> 65535],
      [text |-> "65536", valid |-> FALSE, port |-> 0],
      [text |-> "99999", valid |-> FALSE, port |-> 0],
      [text |-> "-1", valid |-> FALSE, port |-> 0],
      [text |-> "8o", valid |-> FALSE, port |-> 0],
      [text |-> "", valid |-> FALSE, port |-> 0] }

\* what is resolved: an I2pSocketAddr written by Display ("display"), a pair
\* (I2pAddr, u16) or (&str, u16), or a text of a host, a ':' or none, and a
\* port text
ResolveInputs ==
    { [kind |-> k, host |-> h, colon |-> TRUE, port_text |-> ToString(p),
       valid |-> TRUE, port |-> p] :
        k \in {"display", "addr_u16", "str_u16"}, h \in Hosts, p \in U16Ports }
    \cup
    { in \in { [kind |-> "str", host |-> h, colon |-> c, port_text |-> pt.text,
                valid |-> pt.valid, port |-> pt.port] :
                    h \in Hosts, c \in BOOLEAN, pt \in PortTexts } :
        ~in.colon => PositionsOf(in.host \o in.port_text, ":") = {} }

ResolveInit ==
    /\ VerifyIdle
    /\ StreamIdle
    /\ ConnIdle
    /\ WatchIdle
    /\ WireIdle
    /\ HandleIdle
    /\ OptIdle
    /\ ParseIdle
    /\ IncomingIdle
    /\ SharedIdle
    /\ TruncIdle
    /\ ad_pc = "given"
    /\ ad_in \in ResolveInputs
    /\ ad_text = ""
    /\ ad_ret = NoAddrRet

\* format!("{}", a) of an I2pSocketAddr
AdDisplay ==
    /\ ad_pc = "given"
    /\ ad_in.kind = "display"
    /\ ad_text' = DisplaySocketAddr(I2pSocketAddr(I2pAddrNew(ad_in.host), ad_in.port))
    /\ ad_pc' = "text"
    /\ UNCHANGED <<ad_in, ad_ret>>
    /\ UNCHANGED <<verifyVars, streamVars, connVars, watchVars, wireVars, handleVars, optVars, parseVars, incVars, shareVars, truncVars>>

\* the caller's text
AdText ==
    /\ ad_pc = "given"
    /\ ad_in.kind = "str"
    /\ ad_text' = ad_in.host \o (IF ad_in.colon THEN ":" ELSE "") \o ad_in.port_text
    /\ ad_pc' = "text"
    /\ UNCHANGED <<ad_in, ad_ret>>
    /\ UNCHANGED <<verifyVars, streamVars, connVars, watchVars, wireVars, handleVars, optVars, parseVars, incVars, shareVars, truncVars>>

\* text.to_socket_addrs()
AdResolveStr ==
    /\ ad_pc = "text"
    /\ ad_ret' = ToSocketAddrsStr(ad_text)
    /\ ad_pc' = "done"
    /\ UNCHANGED <<ad_in, ad_text>>
    /\ UNCHANGED <<verifyVars, streamVars, connVars, watchVars, wireVars, handleVars, optVars, parseVars, incVars, shareVars, truncVars>>

\* (dest, port).to_socket_addrs() and (host, port).to_socket_addrs()
AdResolvePair ==
    /\ ad_pc = "given"
    /\ ad_in.kind \in {"addr_u16", "str_u16"}
    /\ ad_ret' = IF ad_in.kind = "addr_u16"
                 THEN ToSocketAddrsAddrPort(I2pAddrNew(ad_in.host), ad_in.port)
                 ELSE ToSocketAddrsHostPort(ad_in.host, ad_in.port)
    /\ ad_pc' = "done"
    /\ UNCHANGED <<ad_in, ad_text>>
    /\ UNCHANGED <<verifyVars, streamVars, connVars, watchVars, wireVars, handleVars, optVars, parseVars, incVars, shareVars, truncVars>>

NextResolve == AdDisplay \/ AdText \/ AdResolveStr \/ AdResolvePair

SpecResolve == ResolveInit /\ [][NextResolve]_vars

(***************************************************************************)
(* Claims about address resolution.                                        *)
(***************************************************************************)

\* the one address of the destination and port the input names
NamedAddr == [port |-> ad_in.port, dest |-> [inner |-> ad_in.host]]

\* C27: resolving a text splits it at its last ':' and yields exactly one
\* I2pSocketAddr, the destination verbatim and the port parsed as u16; resolving
\* the text Display writes for an address a yields exactly [a]; a text without
\* ':' or whose port is not a u16 yields an error and no address; an
\* (I2pAddr, u16) or (&str, u16) pair resolves to exactly one address with that
\* destination and port.
C27_ResolveInvertsDisplay ==
    ad_pc = "done" =>
        IF ad_in.colon /\ ad_in.valid
        THEN ad_ret = [ok |-> TRUE, addrs |-> <<NamedAddr>>]
        ELSE ~ad_ret.ok /\ "addrs" \notin DOMAIN ad_ret

\* C27 witness: the text Display wrote for an address whose destination has a
\* ':' in it has been resolved
C27_Witness ==
    /\ ad_pc = "done"
    /\ ad_in.kind = "display"
    /\ PositionsOf(ad_in.host, ":") # {}
    /\ ad_in.port = 65535
    /\ ad_ret.ok

(***************************************************************************)
(* The requests of one control connection: sam.rs SamConnection::connect,  *)
(* handshake, send and naming_lookup, as called by Session::create,        *)
(* StreamConnect::with_session and StreamForward::accept.                  *)
(*                                                                         *)
(* A request is the list of the pieces its format! string joins; "\n" is a *)
(* piece of its own, and no argument contains a newline.  A reply is the   *)
(* pair list the reply parser returns for the line read.                   *)
(***************************************************************************)

\* the largest port given to with_session
MaxPort == 2

SAM_MIN == "3.0"

SAM_MAX == "3.2"

SessionStyle == {"Datagram", "Raw", "Stream"}

\* SessionStyle::string
string(style) ==
    CASE style = "Datagram" -> "DATAGRAM"
      [] style = "Raw"      -> "RAW"
      [] style = "Stream"   -> "STREAM"

\* handshake: format!("HELLO VERSION MIN={SAM_MIN} MAX={SAM_MAX} \n")
HelloMsg == <<"HELLO VERSION MIN=", SAM_MIN, " MAX=", SAM_MAX, " ", "\n">>

\* Session::create: format!("SESSION CREATE STYLE={style} ID={nickname}
\* DESTINATION={destination} {options}\n"), options = options.options()
CreateSessionMsg(style, nickname, destination, options) ==
    <<"SESSION CREATE STYLE=", string(style), " ID=", nickname,
      " DESTINATION=", destination, " ", options, "\n">>

\* naming_lookup: format!("NAMING LOOKUP NAME={name} \n")
NamingLookupMsg(name) == <<"NAMING LOOKUP NAME=", name, " ", "\n">>

\* with_session: the format!, then push_str(" TO_PORT={port}\n") or push('\n')
StreamMsg(nickname, destination, port) ==
    <<"STREAM CONNECT ID=", nickname, " DESTINATION=", destination, " SILENT=false", "\n">>
        \o (IF port > 0 THEN <<" TO_PORT=", ToString(port), "\n">> ELSE <<"\n">>)

\* accept: format!("STREAM ACCEPT ID={nickname} SILENT=false\n")
AcceptStreamMsg(nickname) == <<"STREAM ACCEPT ID=", nickname, " SILENT=false", "\n">>

\* the arguments the operations are called with
Nicknames == {"i2prs-a", "i2prs-b"}

Destinations == {"TRANSIENT", "privkeyA"}

\* what options.options() returned: for SAMOptions::default(), and for an
\* options value that sets no I2CP option
OptionTexts ==
    { SAMOptionsToString(SAMOptionsDefault),
      SAMOptionsToString([SAMOptionsDefault EXCEPT !.i2cp_options = None]) }

PeerNames == {"peer.i2p"}

Ports == 0..MaxPort

CreateArgs ==
    [op : {"create"}, style : SessionStyle, nickname : Nicknames,
     destination : Destinations, options : OptionTexts]

WithSessionArgs ==
    [op : {"with_session"}, nickname : Nicknames, dest : PeerNames, port : Ports]

AcceptArgs == [op : {"accept"}, nickname : Nicknames]

\* the replies of the bridge, as the reply parsers return them
HelloReplies ==
    { << <<"RESULT", "OK">>, <<"VERSION", "3.1">> >>,
      << <<"RESULT", "OK">>, <<"VERSION", "3.3">> >>,
      << <<"RESULT", "OK">> >>,
      << <<"RESULT", "NOVERSION">> >>,
      << <<"RESULT", "I2P_ERROR">>, <<"MESSAGE", "m1">> >> }

SessionReplies ==
    { << <<"RESULT", "OK">>, <<"DESTINATION", "privkeyB">> >>,
      << <<"RESULT", "DUPLICATED_DEST">> >>,
      << <<"RESULT", "I2P_ERROR">>, <<"MESSAGE", "m1">> >> }

NamingReplies ==
    { << <<"RESULT", "OK">>, <<"NAME", "n">>, <<"VALUE", "destA">> >>,
      << <<"RESULT", "OK">>, <<"NAME", "n">>, <<"VALUE", "destB">> >>,
      << <<"RESULT", "OK">>, <<"NAME", "n">> >>,
      << <<"RESULT", "KEY_NOT_FOUND">>, <<"NAME", "n">> >> }

StreamReplies ==
    { << <<"RESULT", "OK">> >>,
      << <<"RESULT", "CANT_REACH_PEER">> >>,
      << <<"RESULT", "INVALID_ID">>, <<"MESSAGE", "m2">> >> }

RepliesTo(step) ==
    CASE step = "hello"  -> HelloReplies
      [] step = "create" -> SessionReplies
      [] step = "lookup" -> NamingReplies
      [] OTHER           -> StreamReplies

\* the request a step writes
Request(step) ==
    CASE step = "hello"   -> HelloMsg
      [] step = "create"  -> CreateSessionMsg(wr_args.style, wr_args.nickname,
                                              wr_args.destination, wr_args.options)
      [] step = "lookup"  -> NamingLookupMsg(IF wr_args.op = "create" THEN "ME" ELSE wr_args.dest)
      [] step = "connect" -> StreamMsg(wr_args.nickname, wr_dest, wr_args.port)
      [] step = "accept"  -> AcceptStreamMsg(wr_args.nickname)

\* the statement that follows a request whose reply was classified OK
AfterOkLookupFirst(op, step) ==
    CASE step = "hello"   -> (IF op = "accept" THEN "accept" ELSE "lookup")
      [] step = "lookup"  -> (IF op = "create" THEN "create" ELSE "connect")
      [] OTHER            -> "return"

AfterOk(op, step) ==
    CASE step = "hello"   -> (CASE op = "create"       -> "create"
                                [] op = "with_session" -> "lookup"
                                [] op = "accept"       -> "accept")
      [] step = "create"  -> "lookup"
      [] step = "lookup"  -> (IF op = "create" THEN "return" ELSE "connect")
      [] OTHER            -> "return"

\* the `?` after send: the operation goes on only with an Ok
ContinuesAlways(r) == TRUE

Continues(r) == r.ok

Written(step, msg) == [ev |-> "write", step |-> step, msg |-> msg, pairs |-> <<>>, ok |-> TRUE]

Replied(step, pairs, ok) == [ev |-> "reply", step |-> step, msg |-> <<>>, pairs |-> pairs, ok |-> ok]

WireInit ==
    /\ VerifyIdle
    /\ StreamIdle
    /\ ConnIdle
    /\ WatchIdle
    /\ HandleIdle
    /\ OptIdle
    /\ ParseIdle
    /\ AddrIdle
    /\ IncomingIdle
    /\ SharedIdle
    /\ TruncIdle
    /\ wr_pc = "dial"
    /\ wr_step = "hello"
    /\ wr_args \in CreateArgs \cup WithSessionArgs \cup AcceptArgs
    /\ wr_trace = <<>>
    /\ wr_greeted = FALSE
    /\ wr_dest = ""
    /\ wr_ret = NoRet
    /\ wr_conn = "none"

\* every owner of the connection keeps it
Leaked(conn, ret) == conn

\* the local SamConnection when the operation returns ret: moved into the
\* value returned with Ok, dropped otherwise, and the drop closes the socket
Dropped(conn, ret) == IF conn = "open" /\ ret.how # "ok" THEN "closed" ELSE conn

\* the operation ends here
WrLeave(ret) ==
    /\ wr_pc' = "done"
    /\ wr_ret' = ret
    /\ wr_conn' = Dropped(wr_conn, ret)
    /\ UNCHANGED <<wr_step, wr_dest, wr_greeted>>

\* an error inside send or connect: create hands it to its caller with `?`;
\* with_session and accept do so too, except inside their first statement,
\* SamConnection::connect(..).unwrap(), which panics on it
WrFail(kind) ==
    IF wr_args.op # "create" /\ wr_step = "hello"
    THEN WrLeave([how |-> "panic", kind |-> kind])
    ELSE WrLeave([how |-> "err", kind |-> kind])

\* session.sam_api()? (with_session and accept), then TcpStream::connect(addr)?
WrDial ==
    /\ wr_pc = "dial"
    /\ \E outcome \in (IF wr_args.op = "create" THEN {} ELSE {"api_err"}) \cup {"refused", "ok"} :
        CASE outcome = "api_err" -> WrLeave([how |-> "err", kind |-> "Io"])
          [] outcome = "refused" -> WrFail("Io")
          [] outcome = "ok"      -> /\ wr_pc' = "write"
                                    /\ wr_conn' = "open"
                                    /\ UNCHANGED <<wr_step, wr_dest, wr_greeted, wr_ret>>
    /\ UNCHANGED <<wr_args, wr_trace>>
    /\ UNCHANGED <<verifyVars, streamVars, connVars, watchVars, handleVars, optVars, parseVars, addrVars, incVars, shareVars, truncVars>>

\* send: self.conn.write_all(&msg.into_bytes())?
WrWrite ==
    /\ wr_pc = "write"
    /\ \E ok \in BOOLEAN :
        IF ok
        THEN /\ wr_trace' = Append(wr_trace, Written(wr_step, Request(wr_step)))
             /\ wr_pc' = "read"
             /\ UNCHANGED <<wr_step, wr_dest, wr_greeted, wr_ret, wr_conn>>
        ELSE /\ WrFail("Io")
             /\ UNCHANGED wr_trace
    /\ UNCHANGED wr_args
    /\ UNCHANGED <<verifyVars, streamVars, connVars, watchVars, handleVars, optVars, parseVars, addrVars, incVars, shareVars, truncVars>>

\* what reader.read_line and the reply parser make of the bridge's answer
ReadOutcomes(step) ==
    { [io |-> "err", pairs |-> <<>>], [io |-> "bad", pairs |-> <<>>] }
        \cup { [io |-> "line", pairs |-> p] : p \in RepliesTo(step) }

\* the operation after a send that returned Ok(map)
WrProceed(map) ==
    LET op == wr_args.op
        nxt == AfterOk(op, wr_step)
        \* naming_lookup: ret["VALUE"].clone()
        resolved == IF wr_step = "lookup" THEN map["VALUE"] ELSE wr_dest
    IN  IF wr_step = "lookup" /\ "VALUE" \notin DOMAIN map
        THEN WrLeave([how |-> "panic", kind |-> "no VALUE"])
        ELSE IF nxt # "return"
        THEN /\ wr_step' = nxt
             /\ wr_pc' = "write"
             /\ wr_dest' = resolved
             /\ wr_greeted' = TRUE
             /\ UNCHANGED <<wr_ret, wr_conn>>
        ELSE /\ wr_pc' = "done"
             /\ wr_dest' = resolved
             /\ UNCHANGED <<wr_step, wr_greeted>>
             /\ CASE op = "create" ->
                        wr_ret' = [how |-> "ok", kind |-> "Session",
                                   local_dest |-> resolved, nickname |-> wr_args.nickname]
                  [] op = "with_session" ->
                        \* session: session.duplicate()?
                        \E dup_ok \in BOOLEAN :
                            wr_ret' = IF dup_ok
                                      THEN [how |-> "ok", kind |-> "StreamConnect",
                                            peer_dest |-> wr_dest, peer_port |-> wr_args.port,
                                            local_port |-> 0]
                                      ELSE [how |-> "err", kind |-> "Io"]
                  [] op = "accept" ->
                        \* the destination line is read next
                        wr_ret' = [how |-> "ok", kind |-> "accepted"]
             /\ wr_conn' = Dropped(wr_conn, wr_ret')

\* send: reader.read_line(&mut buffer)?, reply_parser(b)?, verify_response
WrRead ==
    /\ wr_pc = "read"
    /\ \E line \in ReadOutcomes(wr_step) :
        CASE line.io = "err" ->
                /\ WrFail("Io")
                /\ UNCHANGED wr_trace
          [] line.io = "bad" ->
                /\ WrFail("MessageParsing")
                /\ wr_trace' = Append(wr_trace, Replied(wr_step, <<>>, FALSE))
          [] line.io = "line" ->
                LET r == SendClassify(line.pairs)
                IN  /\ wr_trace' = Append(wr_trace, Replied(wr_step, line.pairs, r.ok))
                    /\ IF Continues(r) THEN WrProceed(r.map) ELSE WrFail(r.kind)
    /\ UNCHANGED wr_args
    /\ UNCHANGED <<verifyVars, streamVars, connVars, watchVars, handleVars, optVars, parseVars, addrVars, incVars, shareVars, truncVars>>

NextWire ==
    \/ WrDial
    \/ WrWrite
    \/ WrRead

SpecWire == WireInit /\ [][NextWire]_vars

(***************************************************************************)
(* Session::create renders the SAMOptions it is given and places the       *)
(* rendered text in the SESSION CREATE request: sam.rs Session::create,    *)
(* sam_options.rs SAMOptions::options.                                     *)
(***************************************************************************)

\* the values an Option<bool> field is given
OptBools == {None, Some(TRUE), Some(FALSE)}

\* the values an inbound tunnel option group is given
InboundValues ==
    {None} \cup
    { Some([I2CPTunnelInboundOptionsDefault EXCEPT !.length = l, !.length_variance = lv]) :
        l \in {None, Some(3)}, lv \in {None, Some(-1)} }

\* the values an outbound tunnel option group is given
OutboundValues ==
    { None,
      Some([I2CPTunnelOutboundOptionsDefault EXCEPT !.length_variance = Some(0),
                                                    !.priority = Some(-2)]) }

RouterValues ==
    {None} \cup
    { Some([I2CPRouterOptionsDefault EXCEPT !.fast_receive = fr, !.lease_set_enc_type = et,
                                            !.inbound = ib, !.outbound = ob]) :
        fr \in {None, Some(TRUE)}, et \in {None, Some(LeaseSetEncTypeDefault)},
        ib \in InboundValues, ob \in OutboundValues }

ClientValues ==
    {None} \cup
    { Some([I2CPClientOptionsDefault EXCEPT !.fast_receive = fr, !.lease_set_enc_type = et]) :
        fr \in OptBools, et \in {None, Some(LeaseSetEncTypeDefault)} }

I2CPValues ==
    {None} \cup
    { Some([router_options |-> ro, client_options |-> co]) :
        ro \in RouterValues, co \in ClientValues }

OptPorts == {None} \cup { Some(p) : p \in 1..MaxOptPort }

\* the SAMOptions values Session::create is called with; SAMOptions::default()
\* is one of them
OptionTrees ==
    [from_port : OptPorts, to_port : OptPorts, i2cp_options : I2CPValues,
     signature_type : {"EdDsaSha512Ed25519", "DsaSha1"}]

\* format!: the pieces, one after the other
RECURSIVE Concat(_)
Concat(pieces) == IF pieces = <<>> THEN "" ELSE Head(pieces) \o Concat(Tail(pieces))

OptionsInit ==
    /\ VerifyIdle
    /\ StreamIdle
    /\ ConnIdle
    /\ WatchIdle
    /\ WireIdle
    /\ HandleIdle
    /\ ParseIdle
    /\ AddrIdle
    /\ IncomingIdle
    /\ SharedIdle
    /\ TruncIdle
    /\ op_pc = "built"
    /\ op_opts \in OptionTrees
    /\ op_text = ""
    /\ op_msg = ""

\* options.options(), evaluated for the format! of Session::create
OpOptions ==
    /\ op_pc = "built"
    /\ op_text' = SAMOptionsToString(op_opts)
    /\ op_pc' = "rendered"
    /\ UNCHANGED <<op_opts, op_msg>>
    /\ UNCHANGED <<verifyVars, streamVars, connVars, watchVars, wireVars, handleVars, parseVars, addrVars, incVars, shareVars, truncVars>>

\* Session::create: create_session_msg = format!("SESSION CREATE ...")
OpCreateMsg ==
    /\ op_pc = "rendered"
    /\ \E style \in SessionStyle :
          op_msg' = Concat(CreateSessionMsg(style, "i2prs-a", "TRANSIENT", op_text))
    /\ op_pc' = "placed"
    /\ UNCHANGED <<op_opts, op_text>>
    /\ UNCHANGED <<verifyVars, streamVars, connVars, watchVars, wireVars, handleVars, parseVars, addrVars, incVars, shareVars, truncVars>>

NextOptions == OpOptions \/ OpCreateMsg

SpecOptions == OptionsInit /\ [][NextOptions]_vars

(***************************************************************************)
(* Claims about the rendered session options.                              *)
(***************************************************************************)

Rendered == op_pc \in {"rendered", "placed"}

\* the tokens of a rendered string: the pieces that a ' ' ends
TokensOf(text) ==
    LET parts == Split(text, " ") IN SubSeq(parts, 1, Len(parts) - 1)

\* what follows the last ' ' of a string
AfterLastSpace(text) ==
    LET parts == Split(text, " ") IN parts[Len(parts)]

\* C21: for every options tree, the string SAMOptions::options renders is a
\* run of tokens, each ended by one ' ', in strictly ascending byte-wise
\* lexicographic order, so that no token occurs twice.
C21_TokensAscendingNoRepeat ==
    Rendered =>
        LET tokens == TokensOf(op_text)
        IN  /\ AfterLastSpace(op_text) = ""
            /\ \A i \in 1..(Len(tokens) - 1) : StrLess(tokens[i], tokens[i + 1])

\* C21 witness: an options value whose pushed pieces were out of order and held
\* one piece twice has been rendered, to at least three non-empty tokens
C21_Witness ==
    /\ op_pc = "rendered"
    /\ LET pushed == Split(Pushed(op_opts), " ")
       IN  /\ \E i, j \in 1..Len(pushed) : i < j /\ pushed[i] = pushed[j] /\ pushed[i] # ""
           /\ \E i \in 1..(Len(pushed) - 1) : StrLess(pushed[i + 1], pushed[i])
    /\ Len(TokensOf(op_text)) >= 4

\* the space-separated words of a request line, its newline left out
WordsOf(msg) == Split(SubSeq(msg, 1, Len(msg) - 1), " ")

HasWord(msg, word) == \E i \in 1..Len(WordsOf(msg)) : WordsOf(msg)[i] = word

\* C22: the SESSION CREATE request that Session::create builds from
\* SAMOptions::default() carries, in its option tail, the token
\* SIGNATURE_TYPE=EdDSA_SHA512_Ed25519 and the token i2cp.leaseSetEncType=4,0.
C22_DefaultTailHasSignatureAndEncType ==
    (op_pc = "placed" /\ op_opts = SAMOptionsDefault) =>
        /\ HasWord(op_msg, "SIGNATURE_TYPE=" \o SignatureTypeToString(op_opts.signature_type))
        /\ HasWord(op_msg, "i2cp.leaseSetEncType=" \o LeaseSetEncTypeDefault)

\* a token of the form KEY=VALUE: a '=' with text before the first one and
\* text after it
IsKeyValue(token) ==
    /\ PositionsOf(token, "=") # {}
    /\ LET eq == CHOOSE i \in PositionsOf(token, "=") :
                    \A j \in PositionsOf(token, "=") : i <= j
       IN  1 < eq /\ eq < Len(token)

\* C23: for every options tree, every non-empty token of the rendered option
\* string has the form KEY=VALUE, the tokens of the inbound and outbound
\* tunnel length variance included.
C23_EveryTokenIsKeyValue ==
    Rendered =>
        \A i \in 1..Len(TokensOf(op_text)) :
            TokensOf(op_text)[i] # "" => IsKeyValue(TokensOf(op_text)[i])

\* the key of a token: the text before its first '=', the whole token if it
\* has none
KeyOf(token) ==
    IF PositionsOf(token, "=") = {} THEN token
    ELSE SubSeq(token, 1, (CHOOSE i \in PositionsOf(token, "=") :
                              \A j \in PositionsOf(token, "=") : i <= j) - 1)

\* C37: for every options tree, no two tokens of the rendered option string
\* have the same key, also when the router-level and the client-level group
\* set the same key to different values.
C37_EachKeyOnce ==
    Rendered =>
        LET tokens == TokensOf(op_text)
        IN  \A i, j \in 1..Len(tokens) : i # j => KeyOf(tokens[i]) # KeyOf(tokens[j])

\* the router-level and the client-level group set fastReceive to different
\* values and the tree has been rendered
C37_GroupsDisagree ==
    /\ Rendered
    /\ op_opts.i2cp_options # None
    /\ LET groups == op_opts.i2cp_options.v
       IN  /\ groups.router_options # None
           /\ groups.client_options # None
           /\ groups.router_options.v.fast_receive = Some(TRUE)
           /\ groups.client_options.v.fast_receive = Some(FALSE)


(***************************************************************************)
(* Claims about the requests of a control connection.                      *)
(***************************************************************************)

IsWrite(e) == e.ev = "write"

\* the requests written so far, in order
Writes == SelectSeq(wr_trace, IsWrite)

WriteSteps == [i \in 1..Len(Writes) |-> Writes[i].step]

IsPrefix(s, t) == Len(s) <= Len(t) /\ SubSeq(t, 1, Len(s)) = s

\* the piece of a request that follows the piece `key`
ValueAfter(msg, key) ==
    LET at == { i \in 1..(Len(msg) - 1) : msg[i] = key }
    IN  IF at = {} THEN "" ELSE msg[(CHOOSE i \in at : TRUE) + 1]

\* every request but the first was written right after a reply classified OK
EachAfterOkReply ==
    \A i \in 1..Len(wr_trace) :
        wr_trace[i].ev = "write" =>
            \/ i = 1
            \/ wr_trace[i - 1].ev = "reply" /\ wr_trace[i - 1].ok

\* C11: the requests Session::create writes on its connection are HELLO, then
\* SESSION CREATE with the style, nickname, destination and rendered options it
\* was given, then NAMING LOOKUP NAME=ME, each written only after the reply to
\* the one before was read and classified OK; the session it returns has the
\* VALUE of the NAMING REPLY as local_dest and the nickname argument as nickname.
C11_CreateRequestsInOrder ==
    wr_args.op = "create" =>
        /\ EachAfterOkReply
        /\ IsPrefix(WriteSteps, <<"hello", "create", "lookup">>)
        /\ \A i \in 1..Len(Writes) :
            LET m == Writes[i].msg
            IN  CASE i = 1 -> m[1] = "HELLO VERSION MIN="
                  [] i = 2 -> /\ ValueAfter(m, "SESSION CREATE STYLE=") = string(wr_args.style)
                              /\ ValueAfter(m, " ID=") = wr_args.nickname
                              /\ ValueAfter(m, " DESTINATION=") = wr_args.destination
                              /\ m[Len(m) - 1] = wr_args.options
                  [] i = 3 -> ValueAfter(m, "NAMING LOOKUP NAME=") = "ME"
        /\ wr_ret.how = "ok" =>
            /\ Len(wr_trace) = 6
            /\ wr_trace[6].ok
            /\ wr_ret.local_dest = LastValue(wr_trace[6].pairs, "VALUE")
            /\ wr_ret.nickname = wr_args.nickname

\* a RAW session was created with a key of its own and options, and the bridge
\* named its destination destB
C11_Witness ==
    /\ wr_args.op = "create"
    /\ wr_args.style = "Raw"
    /\ wr_args.destination = "privkeyA"
    /\ wr_args.options # ""
    /\ wr_ret.how = "ok"
    /\ wr_ret.local_dest = "destB"

\* the reply to HELLO was read and classified OK
HelloAnsweredOk ==
    /\ Len(wr_trace) >= 2
    /\ wr_trace[2].ev = "reply"
    /\ wr_trace[2].step = "hello"
    /\ wr_trace[2].ok

\* C12: on a control connection opened by create, with_session or accept, the
\* first request written is HELLO VERSION with MIN=3.0 and MAX=3.2; any other
\* request is written only once the HELLO reply was read and classified OK, and
\* SamConnection::connect returns a connection only then.
C12_HelloFirstAndGating ==
    /\ wr_trace # <<>> =>
        /\ wr_trace[1].ev = "write"
        /\ wr_trace[1].msg[1] = "HELLO VERSION MIN="
        /\ ValueAfter(wr_trace[1].msg, "HELLO VERSION MIN=") = "3.0"
        /\ ValueAfter(wr_trace[1].msg, " MAX=") = "3.2"
    /\ Len(Writes) > 1 => HelloAnsweredOk
    /\ wr_greeted => HelloAnsweredOk

\* with_session has written its HELLO, its NAMING LOOKUP and its STREAM CONNECT
C12_Witness ==
    /\ wr_args.op = "with_session"
    /\ wr_greeted
    /\ WriteSteps = <<"hello", "lookup", "connect">>

\* the versions from SAM_MIN to SAM_MAX
SupportedVersions == {"3.0", "3.1", "3.2"}

\* C13: SamConnection::connect returns Ok only if the HELLO reply was
\* classified OK and the VERSION it carries lies in 3.0-3.2: a HELLO REPLY with
\* RESULT=OK and another VERSION yields no connection.
C13_GreetedOnlyInVersionRange ==
    wr_greeted =>
        /\ HelloAnsweredOk
        /\ ValuesAt(wr_trace[2].pairs, "VERSION") \subseteq SupportedVersions

\* C14: the request with_session writes for a nickname, a resolved destination
\* and a port is `STREAM CONNECT ID=<nickname> DESTINATION=<resolved>
\* SILENT=false`, then ` TO_PORT=<port>` exactly when port > 0, then one newline:
\* it holds exactly one newline, as its last byte, with TO_PORT before it.
C14_StreamConnectIsOneLine ==
    \A i \in 1..Len(Writes) :
        Writes[i].step = "connect" =>
            LET m == Writes[i].msg
                head == <<"STREAM CONNECT ID=", wr_args.nickname, " DESTINATION=", wr_dest,
                          " SILENT=false">>
                port == IF wr_args.port > 0 THEN <<" TO_PORT=", ToString(wr_args.port)>> ELSE <<>>
            IN  /\ Cardinality(NewlineAt(m)) = 1
                /\ m[Len(m)] = "\n"
                /\ m = head \o port \o <<"\n">>

\* C15: when the dial or the HELLO of the fresh connection fails inside
\* with_session or accept, the operation returns the failure to its caller as
\* an error value, as it does for a failed STREAM CONNECT / STREAM ACCEPT: it
\* does not panic.
C15_ConnectFailureIsErrorValue ==
    (wr_pc = "done" /\ wr_args.op \in {"with_session", "accept"} /\ ~wr_greeted) =>
        wr_ret.how = "err"

\* the replies to SESSION CREATE that were not OK or did not parse
CreateRefusals ==
    { k \in 1..Len(wr_trace) :
        /\ wr_trace[k].ev = "reply"
        /\ wr_trace[k].step = "create"
        /\ ~wr_trace[k].ok }

\* the error send makes of a refused reply
RefusalKind(reply_ev) ==
    IF reply_ev.pairs = <<>> THEN "MessageParsing" ELSE SendClassify(reply_ev.pairs).kind

\* C32: when the reply to SESSION CREATE is not OK, or cannot be parsed,
\* Session::create has returned: it returned that error and no Session, no
\* NAMING LOOKUP was written, and the connection it dialed is closed.
C32_RefusedCreateReturnsErrorAndCloses ==
    wr_args.op = "create" =>
        \A k \in CreateRefusals :
            /\ wr_pc = "done"
            /\ wr_ret.how = "err"
            /\ wr_ret.kind = RefusalKind(wr_trace[k])
            /\ \A i \in 1..Len(WriteSteps) : WriteSteps[i] # "lookup"
            /\ wr_conn = "closed"

\* Session::create has returned after a SESSION STATUS RESULT=DUPLICATED_DEST
C32_Witness ==
    /\ wr_args.op = "create"
    /\ wr_pc = "done"
    /\ wr_conn = "closed"
    /\ \E k \in CreateRefusals : wr_trace[k].pairs = << <<"RESULT", "DUPLICATED_DEST">> >>

(***************************************************************************)
(* The holders of a control socket: sam.rs Session::create and duplicate,  *)
(* StreamConnect::new and with_session, StreamForward::new, with_session   *)
(* and accept, and the drop of each value.                                 *)
(*                                                                         *)
(* h_socks[k].fds counts the descriptors of connection k: try_clone adds   *)
(* one, the drop of a value that holds a TcpStream removes one, and the    *)
(* operating system closes the connection when none is left.  `sent`       *)
(* counts the requests written on it.  A session's nickname is the number  *)
(* of its control connection (nickname() draws a fresh one per session).   *)
(***************************************************************************)

\* values (sessions, streams, listeners) the application makes, in all
MaxHandles == 3

\* a connection that has carried n requests and has one descriptor
Connection(kind, n) == [kind |-> kind, fds |-> 1, shut |-> FALSE, sent |-> n]

\* a connection opened by an operation that failed and dropped it on return
Failed(kind) == [kind |-> kind, fds |-> 0, shut |-> FALSE, sent |-> 1]

\* SamConnection::duplicate: self.conn.try_clone()
SamReconnect(socks, k) == Append(socks, Connection("control", 1))

SamDuplicate(socks, k) == Duplicated(socks, k)

\* the `session: session.duplicate()?` field of a StreamConnect
SessionBorrowed(socks, k) == socks

SessionHeld(socks, k) == SamDuplicate(socks, k)

\* drop of a Session value: its TcpStream closes its descriptor
SessionDropClosesSocket(socks, k) == [socks EXCEPT ![k].fds = 0]

SessionDropped(socks, k) == Closed(socks, k)

HandleInit ==
    /\ VerifyIdle
    /\ StreamIdle
    /\ ConnIdle
    /\ WatchIdle
    /\ WireIdle
    /\ OptIdle
    /\ ParseIdle
    /\ AddrIdle
    /\ IncomingIdle
    /\ SharedIdle
    /\ TruncIdle
    /\ h_socks = <<>>
    /\ h_sessions = {}
    /\ h_streams = {}
    /\ h_forwards = {}
    /\ h_ids = 0

CanMake == h_ids < MaxHandles

\* the connection the next dial opens
Fresh == Len(h_socks) + 1

\* Session::create (also through from_destination and transient)
HSessionCreate ==
    /\ CanMake
    /\ h_ids' = h_ids + 1
    /\ \/ /\ h_socks' = Append(h_socks, Failed("control"))
          /\ UNCHANGED h_sessions
       \/ \E d \in LocalDests :
          /\ h_socks' = Append(h_socks, Connection("control", 3))
          /\ h_sessions' = h_sessions \cup
                { [id |-> h_ids + 1, sock |-> Fresh, nickname |-> Fresh, local_dest |-> d] }
    /\ UNCHANGED <<h_streams, h_forwards>>
    /\ UNCHANGED <<verifyVars, streamVars, connVars, watchVars, wireVars, optVars, parseVars, addrVars, incVars, shareVars, truncVars>>

\* Session::duplicate returning Ok
HSessionDuplicate(s) ==
    /\ CanMake
    /\ h_ids' = h_ids + 1
    /\ h_socks' = SamDuplicate(h_socks, s.sock)
    /\ h_sessions' = h_sessions \cup
            { [id |-> h_ids + 1, sock |-> s.sock, nickname |-> s.nickname,
               local_dest |-> s.local_dest] }
    /\ UNCHANGED <<h_streams, h_forwards>>
    /\ UNCHANGED <<verifyVars, streamVars, connVars, watchVars, wireVars, optVars, parseVars, addrVars, incVars, shareVars, truncVars>>

\* a Session value goes out of scope
HSessionDrop(s) ==
    /\ h_sessions' = h_sessions \ {s}
    /\ h_socks' = SessionDropped(h_socks, s.sock)
    /\ UNCHANGED <<h_streams, h_forwards, h_ids>>
    /\ UNCHANGED <<verifyVars, streamVars, connVars, watchVars, wireVars, optVars, parseVars, addrVars, incVars, shareVars, truncVars>>

\* session.sam.conn.shutdown(Shutdown::Both), as SamSessionWatcher::accept does
HSessionShutdown(s) ==
    /\ ~h_socks[s.sock].shut
    /\ h_socks' = [h_socks EXCEPT ![s.sock].shut = TRUE]
    /\ UNCHANGED <<h_sessions, h_streams, h_forwards, h_ids>>
    /\ UNCHANGED <<verifyVars, streamVars, connVars, watchVars, wireVars, optVars, parseVars, addrVars, incVars, shareVars, truncVars>>

\* StreamConnect::with_session(&s, ..): a data connection of its own, and on
\* success a duplicate of the session in the stream
HStreamWithSession(s) ==
    /\ CanMake
    /\ ~h_socks[s.sock].shut
    /\ h_ids' = h_ids + 1
    /\ \/ /\ h_socks' = Append(h_socks, Failed("data"))
          /\ UNCHANGED h_streams
       \/ /\ h_socks' = SessionHeld(Append(h_socks, Connection("data", 3)), s.sock)
          /\ h_streams' = h_streams \cup
                { [id |-> h_ids + 1, from |-> "with_session", data |-> Fresh, sess |-> s.sock] }
    /\ UNCHANGED <<h_sessions, h_forwards>>
    /\ UNCHANGED <<verifyVars, streamVars, connVars, watchVars, wireVars, optVars, parseVars, addrVars, incVars, shareVars, truncVars>>

\* StreamConnect::new: let session = Session::transient(sam_addr)?;
\* Self::with_session(&session, destination, port), and `session` is dropped
\* when new returns
HStreamNew ==
    /\ CanMake
    /\ h_ids' = h_ids + 1
    /\ LET created == Append(h_socks, Connection("control", 3))
       IN  \/ /\ h_socks' = Append(h_socks, Failed("control"))
              /\ UNCHANGED h_streams
           \/ /\ h_socks' = SessionDropped(Append(created, Failed("data")), Fresh)
              /\ UNCHANGED h_streams
           \/ /\ h_socks' = SessionDropped(
                                SessionHeld(Append(created, Connection("data", 3)), Fresh),
                                Fresh)
              /\ h_streams' = h_streams \cup
                    { [id |-> h_ids + 1, from |-> "new", data |-> Fresh + 1, sess |-> Fresh] }
    /\ UNCHANGED <<h_sessions, h_forwards>>
    /\ UNCHANGED <<verifyVars, streamVars, connVars, watchVars, wireVars, optVars, parseVars, addrVars, incVars, shareVars, truncVars>>

\* StreamForward::new: the listener owns the session Session::transient made
HForwardNew ==
    /\ CanMake
    /\ h_ids' = h_ids + 1
    /\ \/ /\ h_socks' = Append(h_socks, Failed("control"))
          /\ UNCHANGED h_forwards
       \/ /\ h_socks' = Append(h_socks, Connection("control", 3))
          /\ h_forwards' = h_forwards \cup { [id |-> h_ids + 1, from |-> "new", sess |-> Fresh] }
    /\ UNCHANGED <<h_sessions, h_streams>>
    /\ UNCHANGED <<verifyVars, streamVars, connVars, watchVars, wireVars, optVars, parseVars, addrVars, incVars, shareVars, truncVars>>

\* StreamForward::with_session(&s): StreamForward { session: session.duplicate()? }
HForwardWithSession(s) ==
    /\ CanMake
    /\ h_ids' = h_ids + 1
    /\ h_socks' = SessionHeld(h_socks, s.sock)
    /\ h_forwards' = h_forwards \cup { [id |-> h_ids + 1, from |-> "with_session", sess |-> s.sock] }
    /\ UNCHANGED <<h_sessions, h_streams>>
    /\ UNCHANGED <<verifyVars, streamVars, connVars, watchVars, wireVars, optVars, parseVars, addrVars, incVars, shareVars, truncVars>>

\* StreamForward::accept on listener f: a data connection of its own, and on
\* success a duplicate of the listener's session in the returned stream
HAccept(f) ==
    /\ CanMake
    /\ ~h_socks[f.sess].shut
    /\ h_ids' = h_ids + 1
    /\ \/ /\ h_socks' = Append(h_socks, Failed("data"))
          /\ UNCHANGED h_streams
       \/ /\ h_socks' = SessionHeld(Append(h_socks, Connection("data", 2)), f.sess)
          /\ h_streams' = h_streams \cup
                { [id |-> h_ids + 1, from |-> "accept", data |-> Fresh, sess |-> f.sess] }
    /\ UNCHANGED <<h_sessions, h_forwards>>
    /\ UNCHANGED <<verifyVars, streamVars, connVars, watchVars, wireVars, optVars, parseVars, addrVars, incVars, shareVars, truncVars>>

\* a StreamConnect goes out of scope: its `sam` and its `session` are dropped
HStreamDrop(st) ==
    /\ h_streams' = h_streams \ {st}
    /\ h_socks' = SessionDropped(Closed(h_socks, st.data), st.sess)
    /\ UNCHANGED <<h_sessions, h_forwards, h_ids>>
    /\ UNCHANGED <<verifyVars, streamVars, connVars, watchVars, wireVars, optVars, parseVars, addrVars, incVars, shareVars, truncVars>>

\* a StreamForward goes out of scope: its `session` is dropped
HForwardDrop(f) ==
    /\ h_forwards' = h_forwards \ {f}
    /\ h_socks' = SessionDropped(h_socks, f.sess)
    /\ UNCHANGED <<h_sessions, h_streams, h_ids>>
    /\ UNCHANGED <<verifyVars, streamVars, connVars, watchVars, wireVars, optVars, parseVars, addrVars, incVars, shareVars, truncVars>>

NextHandles ==
    \/ HSessionCreate
    \/ \E s \in h_sessions : HSessionDuplicate(s)
    \/ \E s \in h_sessions : HSessionDrop(s)
    \/ \E s \in h_sessions : HSessionShutdown(s)
    \/ \E s \in h_sessions : HStreamWithSession(s)
    \/ HStreamNew
    \/ HForwardNew
    \/ \E s \in h_sessions : HForwardWithSession(s)
    \/ \E f \in h_forwards : HAccept(f)
    \/ \E st \in h_streams : HStreamDrop(st)
    \/ \E f \in h_forwards : HForwardDrop(f)

SpecHandles == HandleInit /\ [][NextHandles]_vars

(***************************************************************************)
(* Claims about the holders of a control socket.                           *)
(***************************************************************************)

\* the values that hold a descriptor of connection k as their session
SessionsOn(k) == { s \in h_sessions : s.sock = k }

StreamsOn(k) == { st \in h_streams : st.sess = k }

ForwardsOn(k) == { f \in h_forwards : f.sess = k }

HoldersOf(k) == Cardinality(SessionsOn(k)) + Cardinality(StreamsOn(k)) + Cardinality(ForwardsOn(k))

ControlSocks == { k \in 1..Len(h_socks) : h_socks[k].kind = "control" }

\* C16 as claimed: the drop of a Session closes its control socket, in every
\* state in which it can happen, also when streams or listeners were made from
\* the session before.
C16_DropClosesControlSocket ==
    [][\A s \in h_sessions : HSessionDrop(s) => h_socks'[s.sock].fds = 0]_vars

\* C16 as amended: the drop of a Session closes one descriptor of its control
\* socket; the socket has as many descriptors as there are values holding it
\* (Session values, duplicates included, and the StreamConnect and StreamForward
\* values made from the session), so it closes exactly when the last of them is
\* dropped.
C16_ClosedWithLastHolder ==
    \A k \in ControlSocks : h_socks[k].fds = HoldersOf(k)

\* the application has dropped every Session value of a session from which it
\* made a listener before: the listener still holds the socket open
C16_Witness ==
    \E f \in h_forwards :
        /\ f.from = "with_session"
        /\ SessionsOn(f.sess) = {}
        /\ h_socks[f.sess].fds = 1

\* C17: while a StreamConnect (from with_session, new or accept) or a
\* StreamForward exists, the control socket of its session has an open
\* descriptor: nothing but an explicit shutdown ends the connection, also for
\* the stream of StreamConnect::new, whose local Session is dropped on return.
C17_SessionSocketOutlivesStream ==
    /\ \A st \in h_streams : h_socks[st.sess].fds > 0
    /\ \A f \in h_forwards : h_socks[f.sess].fds > 0

\* a stream made by StreamConnect::new is alive, no Session value of its
\* session exists, and nobody has shut the control socket down
C17_Witness ==
    \E st \in h_streams :
        /\ st.from = "new"
        /\ SessionsOn(st.sess) = {}
        /\ h_socks[st.sess].fds = 1
        /\ ~h_socks[st.sess].shut

\* C18: Session::duplicate writes nothing to the bridge and opens no
\* connection; the value it returns has the nickname and local_dest of the
\* original and refers to the same socket; the original keeps its nickname,
\* local_dest and socket, and the socket's state is unchanged.
C18_DuplicateIsLocal ==
    [][\A s \in h_sessions :
        HSessionDuplicate(s) =>
            /\ Len(h_socks') = Len(h_socks)
            /\ \A k \in 1..Len(h_socks) :
                /\ h_socks'[k].sent = h_socks[k].sent
                /\ h_socks'[k].shut = h_socks[k].shut
                /\ (h_socks'[k].fds > 0) = (h_socks[k].fds > 0)
            /\ h_sessions \subseteq h_sessions'
            /\ \E d \in h_sessions' \ h_sessions :
                /\ d.sock = s.sock
                /\ d.nickname = s.nickname
                /\ d.local_dest = s.local_dest
                /\ h_socks'[d.sock].fds = h_socks[s.sock].fds + 1]_vars

\* a session and a duplicate of it exist side by side, beside another session
C18_Witness ==
    /\ \E s, d \in h_sessions :
        /\ s.id # d.id
        /\ s.sock = d.sock
        /\ s.nickname = d.nickname
        /\ s.local_dest = d.local_dest
        /\ h_socks[s.sock].fds = 2
    /\ \E s, o \in h_sessions : s.sock # o.sock

(***************************************************************************)
(* The listener's iterator: net/streaming.rs I2pListener::incoming,        *)
(* Iterator for Incoming, I2pListener::accept, and the steps of            *)
(* sam.rs StreamForward::accept that end the call.                         *)
(*                                                                         *)
(* An item is what a call to next returned: Some(Ok(stream)) or            *)
(* Some(Err(kind)).  A panic inside the call unwinds the thread that runs  *)
(* the loop: the call returns nothing.                                     *)
(***************************************************************************)

\* calls to next the loop makes
MaxNext == 3

ItemOk == [some |-> TRUE, ok |-> TRUE, kind |-> "I2pStream"]

ItemErr(kind) == [some |-> TRUE, ok |-> FALSE, kind |-> kind]

\* the errors SamConnection::send returns
SendErrors == {"Io", "MessageParsing", "SAMI2PError"}

\* the errors reading the destination line returns
DestErrors == {"Io", "SAMKeyNotFound", "BadAddressEncoding"}

IncomingInit ==
    /\ VerifyIdle
    /\ StreamIdle
    /\ ConnIdle
    /\ WatchIdle
    /\ WireIdle
    /\ HandleIdle
    /\ OptIdle
    /\ ParseIdle
    /\ AddrIdle
    /\ SharedIdle
    /\ TruncIdle
    /\ in_pc = "idle"
    /\ in_calls = 0
    /\ in_items = <<>>

\* next returns Some(self.listener.accept().map(|p| p.0))
InReturn(item) ==
    /\ in_items' = Append(in_items, item)
    /\ in_pc' = "idle"
    /\ UNCHANGED in_calls

\* the loop calls next: Incoming::next, I2pListener::accept,
\* StreamForward::accept
InNext ==
    /\ in_pc = "idle"
    /\ in_calls < MaxNext
    /\ in_calls' = in_calls + 1
    /\ in_pc' = "connect"
    /\ UNCHANGED in_items
    /\ UNCHANGED <<verifyVars, streamVars, connVars, watchVars, wireVars, handleVars, optVars, parseVars, addrVars, shareVars, truncVars>>

\* SamConnection::connect(self.session.sam_api()?).unwrap(): sam_api fails
\* (returned with ?), connect fails (unwrap panics), or both succeed
InConnect ==
    /\ in_pc = "connect"
    /\ \E outcome \in {"sam_api_err", "connect_err", "ok"} :
          CASE outcome = "sam_api_err" -> InReturn(ItemErr("Io"))
            [] outcome = "connect_err" ->
                  /\ in_pc' = "unwound"
                  /\ UNCHANGED <<in_calls, in_items>>
            [] outcome = "ok" ->
                  /\ in_pc' = "send"
                  /\ UNCHANGED <<in_calls, in_items>>
    /\ UNCHANGED <<verifyVars, streamVars, connVars, watchVars, wireVars, handleVars, optVars, parseVars, addrVars, shareVars, truncVars>>

\* sam_conn.send(accept_stream_msg, sam_stream_status)?
InSend ==
    /\ in_pc = "send"
    /\ \/ \E kind \in SendErrors : InReturn(ItemErr(kind))
       \/ /\ in_pc' = "duplicate"
          /\ UNCHANGED <<in_calls, in_items>>
    /\ UNCHANGED <<verifyVars, streamVars, connVars, watchVars, wireVars, handleVars, optVars, parseVars, addrVars, shareVars, truncVars>>

\* self.session.duplicate()? and stream.duplicate()?
InDuplicate ==
    /\ in_pc = "duplicate"
    /\ \/ InReturn(ItemErr("Io"))
       \/ /\ in_pc' = "dest"
          /\ UNCHANGED <<in_calls, in_items>>
    /\ UNCHANGED <<verifyVars, streamVars, connVars, watchVars, wireVars, handleVars, optVars, parseVars, addrVars, shareVars, truncVars>>

\* read_line(&mut dest_line)?, the empty destination, from_b64(..)?,
\* Ok((stream, addr))
InDest ==
    /\ in_pc = "dest"
    /\ \/ \E kind \in DestErrors : InReturn(ItemErr(kind))
       \/ InReturn(ItemOk)
    /\ UNCHANGED <<verifyVars, streamVars, connVars, watchVars, wireVars, handleVars, optVars, parseVars, addrVars, shareVars, truncVars>>

NextIncoming == InNext \/ InConnect \/ InSend \/ InDuplicate \/ InDest

SpecIncoming == IncomingInit /\ [][NextIncoming]_vars

(***************************************************************************)
(* Claims about the listener's iterator.                                   *)
(***************************************************************************)

\* the calls to next that are over
CallsOver == IF in_pc \in {"idle", "unwound"} THEN in_calls ELSE in_calls - 1

\* C28: the iterator never ends: every call to next that is over has returned
\* Some, carrying the result of one accept (Ok with the stream or Err with the
\* error), also after any number of earlier accept errors.
C28_EveryNextReturnsSome ==
    /\ Len(in_items) = CallsOver
    /\ \A k \in 1..Len(in_items) : in_items[k].some

(***************************************************************************)
(* A Session and its duplicate on one control socket: Session::duplicate   *)
(* clones the descriptor, and each holder calls Session::naming_lookup on  *)
(* the value it owns.  SamConnection::send is a write_all followed by a    *)
(* read_line; the bridge answers the requests of a socket in the order     *)
(* they arrived.                                                           *)
(***************************************************************************)

\* the calls to naming_lookup the two holders make between them
MaxLookups == 3

\* the Session returned by Session::create and the one returned by duplicate
Holders == {"session", "duplicate"}

LookupNames == {"ME", "example.i2p"}

NoAsk == [call |-> 0, name |-> ""]

\* format!("NAMING LOOKUP NAME={name} \n") of call number call by holder h
LookupRequest(call, h, name) == [call |-> call, by |-> h, name |-> name]

\* the bridge's NAMING REPLY to a request: it names what was asked
LookupReply(request) == [call |-> request.call, by |-> request.by, name |-> request.name]

\* the holder owns a Session value
Has(h) == h = "session" \/ sh_dup = "made"

SharedInit ==
    /\ VerifyIdle
    /\ StreamIdle
    /\ ConnIdle
    /\ WatchIdle
    /\ WireIdle
    /\ HandleIdle
    /\ OptIdle
    /\ ParseIdle
    /\ AddrIdle
    /\ IncomingIdle
    /\ TruncIdle
    /\ sh_dup = "none"
    /\ sh_pc = [h \in Holders |-> "idle"]
    /\ sh_ask = [h \in Holders |-> NoAsk]
    /\ sh_calls = 0
    /\ sh_requests = <<>>
    /\ sh_replies = <<>>
    /\ sh_got = [h \in Holders |-> <<>>]

\* Session::duplicate: self.sam.duplicate() is try_clone of the socket
ShDuplicate ==
    /\ sh_dup = "none"
    /\ \E ok \in BOOLEAN : sh_dup' = IF ok THEN "made" ELSE "failed"
    /\ UNCHANGED <<sh_pc, sh_ask, sh_calls, sh_requests, sh_replies, sh_got>>
    /\ UNCHANGED <<verifyVars, streamVars, connVars, watchVars, wireVars, handleVars, optVars, parseVars, addrVars, incVars, truncVars>>

\* SamConnection::send through &mut self of the holder's own value:
\* self.conn.write_all(&msg.into_bytes())?
ShWrite(h) ==
    /\ Has(h)
    /\ sh_pc[h] = "idle"
    /\ sh_calls < MaxLookups
    /\ sh_calls' = sh_calls + 1
    /\ \E name \in LookupNames, ok \in BOOLEAN :
        IF ok
        THEN /\ sh_requests' = Append(sh_requests, LookupRequest(sh_calls + 1, h, name))
             /\ sh_pc' = [sh_pc EXCEPT ![h] = "written"]
             /\ sh_ask' = [sh_ask EXCEPT ![h] = [call |-> sh_calls + 1, name |-> name]]
        ELSE UNCHANGED <<sh_requests, sh_pc, sh_ask>>
    /\ UNCHANGED <<sh_dup, sh_replies, sh_got>>
    /\ UNCHANGED <<verifyVars, streamVars, connVars, watchVars, wireVars, handleVars, optVars, parseVars, addrVars, incVars, truncVars>>

\* the bridge answers the oldest request of the socket
ShBridgeReply ==
    /\ sh_requests # <<>>
    /\ sh_replies' = Append(sh_replies, LookupReply(Head(sh_requests)))
    /\ sh_requests' = Tail(sh_requests)
    /\ UNCHANGED <<sh_dup, sh_pc, sh_ask, sh_calls, sh_got>>
    /\ UNCHANGED <<verifyVars, streamVars, connVars, watchVars, wireVars, handleVars, optVars, parseVars, addrVars, incVars, truncVars>>

\* SamConnection::send: reader.read_line(&mut buffer)? takes the next line of
\* the socket, then the call returns
ShRead(h) ==
    /\ sh_pc[h] = "written"
    /\ sh_replies # <<>>
    /\ sh_got' = [sh_got EXCEPT ![h] = Append(@, [asked |-> sh_ask[h], line |-> Head(sh_replies)])]
    /\ sh_replies' = Tail(sh_replies)
    /\ sh_pc' = [sh_pc EXCEPT ![h] = "idle"]
    /\ sh_ask' = [sh_ask EXCEPT ![h] = NoAsk]
    /\ UNCHANGED <<sh_dup, sh_calls, sh_requests>>
    /\ UNCHANGED <<verifyVars, streamVars, connVars, watchVars, wireVars, handleVars, optVars, parseVars, addrVars, incVars, truncVars>>

NextShared ==
    \/ ShDuplicate
    \/ \E h \in Holders : ShWrite(h)
    \/ ShBridgeReply
    \/ \E h \in Holders : ShRead(h)

SpecShared == SharedInit /\ [][NextShared]_vars

(***************************************************************************)
(* Claims about the transactions on one socket.                            *)
(***************************************************************************)

\* the holders whose request is written and whose reply is not read yet
InFlight == {h \in Holders : sh_pc[h] = "written"}

\* C29: at most one command-reply transaction is in flight on the socket at
\* any moment, whatever the interleaving of the holders of a Session and of its
\* duplicate, and every reply read was the answer to the reader's own request.
C29_OneTransactionPerSocket ==
    /\ Cardinality(InFlight) <= 1
    /\ \A h \in Holders : \A k \in 1..Len(sh_got[h]) :
        sh_got[h][k].line.call = sh_got[h][k].asked.call

(***************************************************************************)
(* One SamConnection::send whose reply the bridge cuts short: the bridge   *)
(* sends the first chars of a reply line, all of it or less, and closes    *)
(* the connection.  The chars arrive in any grouping; read_line on the     *)
(* BufReader loops until it has a newline or the stream has ended, and     *)
(* the reply parser and verify_response get what it read.  The caller of   *)
(* send (handshake, naming_lookup, generate_destination) then takes the    *)
(* fields it returns from the map.                                         *)
(***************************************************************************)

\* the reply lines the bridge starts to send, with the parser send is given
TruncReplies ==
    { [parser |-> "sam_hello", line |-> "HELLO REPLY RESULT=OK\n"],
      [parser |-> "sam_dest_reply", line |-> "DEST REPLY PUB=ab PRIV=\"c d\"\n"],
      [parser |-> "sam_dest_reply", line |-> "DEST REPLY PUB=ab\n"],
      [parser |-> "sam_naming_reply", line |-> "NAMING REPLY RESULT=OK VALUE=ab\n"],
      [parser |-> "sam_naming_reply", line |-> "NAMING REPLY RESULT=OK NAME=ME\n"],
      [parser |-> "sam_naming_reply", line |-> "NAMING REPLY RESULT=KEY_NOT_FOUND\n"] }

ReturnOk(fields) == [how |-> "ok", fields |-> fields, kind |-> "none"]

ReturnErr(kind) == [how |-> "err", fields |-> <<>>, kind |-> kind]

\* the index of a HashMap with a key it does not hold
IndexPanic == [how |-> "panic", fields |-> <<>>, kind |-> "index"]

\* the fields each caller of send takes from the map with ret[..]
FieldsTaken(parser) ==
    CASE parser = "sam_naming_reply" -> <<"VALUE">>
      [] parser = "sam_dest_reply"   -> <<"PUB", "PRIV">>
      [] OTHER                       -> <<>>

\* naming_lookup: let ret = self.send(..)?; Ok(ret["VALUE"].clone())
\* generate_destination: Ok((ret["PUB"].clone(), ret["PRIV"].clone()))
CallerReturn(parser, ret) ==
    IF ~ret.ok THEN ReturnErr(ret.kind)
    ELSE IF \A k \in 1..Len(FieldsTaken(parser)) : FieldsTaken(parser)[k] \in DOMAIN ret.map
    THEN ReturnOk([k \in 1..Len(FieldsTaken(parser)) |-> ret.map[FieldsTaken(parser)[k]]])
    ELSE IndexPanic

\* read_line never ends at the end of the stream
AtNewlineOnly(chunk) == PositionsOf(chunk, "\n") # {}

\* BufRead::read_line, the end of its loop on the chunk fill_buf returned: a
\* newline is in it, or it is empty (the stream has ended)
ReadLineDone(chunk) == PositionsOf(chunk, "\n") # {} \/ chunk = ""

\* BufRead::read_line, the chars one turn of its loop appends: through the
\* first newline of the chunk, else the chunk
ReadLineTakes(chunk) ==
    LET at == PositionsOf(chunk, "\n")
    IN  IF at = {} THEN chunk
        ELSE SubSeq(chunk, 1, CHOOSE i \in at : \A j \in at : i <= j)

\* send after read_line: reply_parser(b)?.1, then verify_response
SendParsed(parser, buffer) ==
    LET after_parse(r) ==
            IF r.ok THEN SendClassify(r.out) ELSE ErrResult("MessageParsing", "")
    IN  after_parse(Parse(parser, buffer))

\* what read_line can hand to the parser: a reply up to any of its chars
TruncBuffers ==
    UNION { { <<sent.parser, SubSeq(sent.line, 1, cut)>> : cut \in 0..Len(sent.line) } :
                sent \in TruncReplies }

\* send after read_line, by parser and buffer
SendReturns == [b \in TruncBuffers |-> SendParsed(b[1], b[2])]

TruncInit ==
    /\ VerifyIdle
    /\ StreamIdle
    /\ ConnIdle
    /\ WatchIdle
    /\ WireIdle
    /\ HandleIdle
    /\ OptIdle
    /\ ParseIdle
    /\ AddrIdle
    /\ IncomingIdle
    /\ SharedIdle
    /\ tr_pc = "read"
    /\ \E sent \in TruncReplies : \E cut \in 0..Len(sent.line) :
        /\ tr_parser = sent.parser
        /\ tr_wire = SubSeq(sent.line, 1, cut)
    /\ tr_kbuf = ""
    /\ tr_closed = FALSE
    /\ tr_line = ""
    /\ tr_ret = NoResult
    /\ tr_out = NoReturn

\* the network delivers the next chars the bridge sent, in any grouping
TrArrive ==
    /\ tr_pc # "off"
    /\ \E n \in 1..Len(tr_wire) :
        /\ tr_kbuf' = tr_kbuf \o SubSeq(tr_wire, 1, n)
        /\ tr_wire' = SubSeq(tr_wire, n + 1, Len(tr_wire))
    /\ UNCHANGED <<tr_pc, tr_parser, tr_closed, tr_line, tr_ret, tr_out>>
    /\ UNCHANGED <<verifyVars, streamVars, connVars, watchVars, wireVars, handleVars, optVars, parseVars, addrVars, incVars, shareVars>>

\* the bridge's close arrives after its last char
TrBridgeClose ==
    /\ tr_pc # "off"
    /\ tr_wire = ""
    /\ ~tr_closed
    /\ tr_closed' = TRUE
    /\ UNCHANGED <<tr_pc, tr_parser, tr_wire, tr_kbuf, tr_line, tr_ret, tr_out>>
    /\ UNCHANGED <<verifyVars, streamVars, connVars, watchVars, wireVars, handleVars, optVars, parseVars, addrVars, incVars, shareVars>>

\* send: one turn of reader.read_line(&mut buffer)?, which blocks while nothing
\* has arrived on an open connection, and, once read_line returns, the rest
\* of send
TrReadLine ==
    /\ tr_pc = "read"
    /\ tr_kbuf # "" \/ tr_closed
    /\ LET chunk == FillBuf(tr_kbuf)
           buffer == tr_line \o ReadLineTakes(chunk)
       IN  /\ tr_kbuf' = SubSeq(tr_kbuf, Len(chunk) + 1, Len(tr_kbuf))
           /\ tr_line' = buffer
           /\ IF ReadLineDone(chunk)
              THEN /\ tr_pc' = "returned"
                   /\ tr_ret' = SendReturns[<<tr_parser, buffer>>]
              ELSE UNCHANGED <<tr_pc, tr_ret>>
    /\ UNCHANGED <<tr_parser, tr_wire, tr_closed, tr_out>>
    /\ UNCHANGED <<verifyVars, streamVars, connVars, watchVars, wireVars, handleVars, optVars, parseVars, addrVars, incVars, shareVars>>

\* the caller of send: `?` on what send returned, then the fields of the map
TrCaller ==
    /\ tr_pc = "returned"
    /\ tr_pc' = "left"
    /\ tr_out' = CallerReturn(tr_parser, tr_ret)
    /\ UNCHANGED <<tr_parser, tr_wire, tr_kbuf, tr_closed, tr_line, tr_ret>>
    /\ UNCHANGED <<verifyVars, streamVars, connVars, watchVars, wireVars, handleVars, optVars, parseVars, addrVars, incVars, shareVars>>

NextTruncated == TrArrive \/ TrBridgeClose \/ TrReadLine \/ TrCaller

\* the thread inside send keeps running its read_line
SpecTruncated == TruncInit /\ [][NextTruncated]_vars /\ WF_vars(TrReadLine)

(***************************************************************************)
(* Claims about a reply cut short.                                         *)
(***************************************************************************)

\* what send was given to read has no newline: the reply line is not complete
Truncated == PositionsOf(tr_line \o tr_kbuf \o tr_wire, "\n") = {}

\* send has returned to its caller
SendReturned == tr_pc \in {"returned", "left"}

\* C33: when the bridge closes the connection before it has sent a complete
\* reply line (nothing, or chars without the newline), send returns, and what
\* it returns is an error: never Ok, and never blocked for good once the
\* connection is closed.
C33_TruncatedReplyIsError ==
    /\ []((SendReturned /\ Truncated) => ~tr_ret.ok)
    /\ ((tr_closed /\ Truncated) ~> (SendReturned /\ ~tr_ret.ok))

\* send has returned after the bridge closed in the middle of a quoted value
C33_Witness ==
    /\ tr_pc = "returned"
    /\ tr_closed
    /\ tr_line = "DEST REPLY PUB=ab PRIV=\"c"
    /\ ~tr_ret.ok
    /\ tr_ret.kind = "MessageParsing"

\* the reply line send read, whole
WholeReply == \E sent \in TruncReplies : sent.parser = tr_parser /\ sent.line = tr_line

\* C38: for every reply line, naming_lookup and generate_destination return
\* the fields they ask for (VALUE, or PUB and PRIV) or an error value; a reply
\* classified OK that lacks a field gives an error value.
C38_FieldsOrErrorValue ==
    (tr_pc = "left" /\ tr_parser \in {"sam_naming_reply", "sam_dest_reply"}) =>
        /\ tr_out.how \in {"ok", "err"}
        /\ tr_out.how = "ok" => Len(tr_out.fields) = Len(FieldsTaken(tr_parser))

\* naming_lookup has returned the VALUE of a whole reply that has one
C38_ValueReturned ==
    /\ tr_pc = "left"
    /\ tr_line = "NAMING REPLY RESULT=OK VALUE=ab\n"
    /\ tr_out = ReturnOk(<<"ab">>)

====
